---- MODULE Spec2Model ----
(***************************************************************************)
(* Model of the USD asset dependency analyzer (backend/usd_analyzer.py)    *)
(* and of the packaging of its result (backend/main.py, package_files).    *)
(*                                                                         *)
(* Paths and tokens are strings, handled character by character the way    *)
(* the Python code handles them (str.replace, "in", os.path calls).  The   *)
(* os functions follow posixpath.  The file tree is a value `fs`: an       *)
(* ordered listing of files, the text tokens of every scene document, and  *)
(* what the scene-graph provider reports for it.                           *)
(***************************************************************************)
EXTENDS Integers, Sequences, FiniteSets, TLC

(***************************************************************************)
(* Python values                                                           *)
(***************************************************************************)
\* Python's None.  No path or token of the model is spelled like this.
None == "<None>"

\* Python truthiness of an Optional[str].
Truthy(x) == x # None /\ x # ""

(***************************************************************************)
(* Calls                                                                   *)
(* The functions of the program that many others use are applied through   *)
(* Call(name, arguments), which evaluates the arguments once and applies    *)
(* the function's body, <name>_body.  Call is the one recursive operator    *)
(* of those functions: what TLC records about an expression then grows     *)
(* with the size of the module, not with the number of call paths.         *)
(***************************************************************************)
RECURSIVE Call(_, _)

os_path_normpath(path0) ==
  Call("os_path_normpath", <<path0>>)

os_walk(tree, top) ==
  Call("os_walk", <<tree, top>>)

resolve_path(tree, file_path, base_dir) ==
  Call("resolve_path", <<tree, file_path, base_dir>>)

is_likely_texture_path(path0) ==
  Call("is_likely_texture_path", <<path0>>)

is_likely_usd_path(path0) ==
  Call("is_likely_usd_path", <<path0>>)

count_udim_textures_in_path(tree, udim_path) ==
  Call("count_udim_textures_in_path", <<tree, udim_path>>)

count_actual_textures(tree, base_path) ==
  Call("count_actual_textures", <<tree, base_path>>)

add_texture_path(tree, an, path, source) ==
  Call("add_texture_path", <<tree, an, path, source>>)

extract_assets_from_usd(tree, an, usd_file_path, base_dir, depth) ==
  Call("extract_assets_from_usd", <<tree, an, usd_file_path, base_dir, depth>>)

analyze_usd_file(tree, an, file_path, original_dir) ==
  Call("analyze_usd_file", <<tree, an, file_path, original_dir>>)

Report(tree, an) ==
  Call("Report", <<tree, an>>)

Tree(files, extra, content, provider) ==
  Call("Tree", <<files, extra, content, provider>>)

VerifiedUdimFiles(tree, texture_path, udim) ==
  Call("VerifiedUdimFiles", <<tree, texture_path, udim>>)

ShadePrims(tree, net, st, prims, effective_dir) ==
  Call("ShadePrims", <<tree, net, st, prims, effective_dir>>)

os_path_dirname(path) ==
  Call("os_path_dirname", <<path>>)

Find(str, sub) ==
  Call("Find", <<str, sub>>)

Replace(str, old, new) ==
  Call("Replace", <<str, old, new>>)

ref_relative_path(source_file, ref_path) ==
  Call("ref_relative_path", <<source_file, ref_path>>)

tex_relative_path(source_file, texture_path) ==
  Call("tex_relative_path", <<source_file, texture_path>>)

package_files(tree, request0) ==
  Call("package_files", <<tree, request0>>)

(***************************************************************************)
(* str methods                                                             *)
(***************************************************************************)
Char(s, i) == SubSeq(s, i, i)

\* The operators below name their arguments in a LET, so that an argument
\* given as an expression is evaluated once.
StartsWith(str, prefix) ==
  LET s == str
      p == prefix
  IN Len(p) <= Len(s) /\ SubSeq(s, 1, Len(p)) = p

EndsWith(str, suffix) ==
  LET s == str
      p == suffix
  IN Len(p) <= Len(s) /\ SubSeq(s, Len(s) - Len(p) + 1, Len(s)) = p

\* p in s
Contains(str, sub) ==
  LET s == str
      p == sub
  IN \E i \in 1..(Len(s) - Len(p) + 1) : SubSeq(s, i, i + Len(p) - 1) = p

\* s.find(p) + 1: position of the first occurrence, 0 when there is none.
Find_body(str, sub) ==
  LET s == str
      p == sub
      hits == {i \in 1..(Len(s) - Len(p) + 1) : SubSeq(s, i, i + Len(p) - 1) = p}
  IN IF ~Contains(s, p) THEN 0 ELSE CHOOSE i \in hits : \A j \in hits : i <= j

\* s.rfind(p) + 1.
RFind(str, sub) ==
  LET s == str
      p == sub
      hits == {i \in 1..(Len(s) - Len(p) + 1) : SubSeq(s, i, i + Len(p) - 1) = p}
  IN IF hits = {} THEN 0 ELSE CHOOSE i \in hits : \A j \in hits : i >= j

\* s.replace(p, r), p non-empty: every occurrence, left to right.
Replace_body(str, old, new) ==
  LET s == str
      p == old
      r == new
      i == Find(s, p)
  IN IF i = 0 THEN s
     ELSE SubSeq(s, 1, i - 1) \o r \o Replace(SubSeq(s, i + Len(p), Len(s)), p, r)

UpperCase == "ABCDEFGHIJKLMNOPQRSTUVWXYZ"
LowerCase == "abcdefghijklmnopqrstuvwxyz"

UpperSet == {Char(UpperCase, i) : i \in 1..Len(UpperCase)}
LowerSet == {Char(LowerCase, i) : i \in 1..Len(LowerCase)}

\* The lower-case letter of each upper-case one, and the reverse.
LowerOf == [c \in UpperSet |-> Char(LowerCase, Find(UpperCase, c))]
UpperOf == [c \in LowerSet |-> Char(UpperCase, Find(LowerCase, c))]

LowerChar(c) == IF c \in UpperSet THEN LowerOf[c] ELSE c

UpperChar(c) == IF c \in LowerSet THEN UpperOf[c] ELSE c

RECURSIVE Lower(_)
\* s.lower()
Lower(str) ==
  LET s == str
  IN IF \A i \in 1..Len(s) : Char(s, i) \notin UpperSet THEN s
     ELSE LowerChar(Char(s, 1)) \o Lower(Tail(s))

RECURSIVE LStrip(_, _)
LStrip(s, chars) ==
  IF s # "" /\ Contains(chars, Char(s, 1)) THEN LStrip(Tail(s), chars) ELSE s

RECURSIVE RStrip(_, _)
RStrip(s, chars) ==
  IF s # "" /\ Contains(chars, Char(s, Len(s)))
  THEN RStrip(SubSeq(s, 1, Len(s) - 1), chars) ELSE s

\* s.strip(chars)
Strip(s, chars) == RStrip(LStrip(s, chars), chars)

\* The characters str.strip() removes (the ones the model's tokens use).
Whitespace == " \t\n"

RECURSIVE SplitAll(_, _)
\* s.split(sep), sep non-empty: the parts between the occurrences of sep,
\* found left to right.
SplitAll(str, sep) ==
  LET s == str
      i == Find(s, sep)
  IN IF i = 0 THEN <<s>>
     ELSE <<SubSeq(s, 1, i - 1)>> \o SplitAll(SubSeq(s, i + Len(sep), Len(s)), sep)

\* s.split(c) for a separator of one character: the parts between the
\* positions of c.
SplitChar(str, c) ==
  LET s == str
      at == {i \in 1..Len(s) : Char(s, i) = c}
      Nth(k) == IF k = 0 THEN 0
                ELSE IF k > Cardinality(at) THEN Len(s) + 1
                ELSE CHOOSE i \in at : Cardinality({j \in at : j <= i}) = k
  IN [k \in 1..(Cardinality(at) + 1) |-> SubSeq(s, Nth(k - 1) + 1, Nth(k) - 1)]

\* s.split(sep), sep non-empty.
Split(str, sep) ==
  IF Len(sep) = 1 THEN SplitChar(str, sep) ELSE SplitAll(str, sep)

Digits == "0123456789"
DigitSet == {Char(Digits, i) : i \in 1..Len(Digits)}


\* Every character of s is a digit (s may be empty).
AllDigits(s) == \A i \in 1..Len(s) : Char(s, i) \in DigitSet

(***************************************************************************)
(* os.path (posixpath)                                                     *)
(***************************************************************************)
os_path_isabs(p) == StartsWith(p, "/")

os_path_join(head, tail) ==
  LET a == head
      b == tail IN
  IF StartsWith(b, "/") THEN b
  ELSE IF a = "" \/ EndsWith(a, "/") THEN a \o b
  ELSE a \o "/" \o b

os_path_basename(path) ==
  LET p == path IN SubSeq(p, RFind(p, "/") + 1, Len(p))

os_path_dirname_body(path) ==
  LET p == path
      head == SubSeq(p, 1, RFind(p, "/"))
  IN IF head # "" /\ RStrip(head, "/") # "" THEN RStrip(head, "/") ELSE head

\* p is an absolute path that posixpath.normpath returns as it is: one
\* leading slash, no empty component, none that starts with a dot.
IsNormalAbs(p) ==
  /\ StartsWith(p, "/")
  /\ ~Contains(p, "//")
  /\ ~Contains(p, "/.")
  /\ p = "/" \/ ~EndsWith(p, "/")

RECURSIVE NormComps(_, _, _)
\* The component loop of posixpath.normpath.
NormComps(comps, new_comps, initial_slashes) ==
  IF comps = <<>> THEN new_comps
  ELSE LET comp == Head(comps)
           rest == Tail(comps)
       IN IF comp = "" \/ comp = "." THEN NormComps(rest, new_comps, initial_slashes)
          ELSE IF comp # ".."
                  \/ (initial_slashes = 0 /\ new_comps = <<>>)
                  \/ (new_comps # <<>> /\ new_comps[Len(new_comps)] = "..")
          THEN NormComps(rest, Append(new_comps, comp), initial_slashes)
          ELSE IF new_comps # <<>>
          THEN NormComps(rest, SubSeq(new_comps, 1, Len(new_comps) - 1), initial_slashes)
          ELSE NormComps(rest, new_comps, initial_slashes)

RECURSIVE JoinComps(_)
JoinComps(comps) ==
  IF comps = <<>> THEN ""
  ELSE IF Len(comps) = 1 THEN comps[1]
  ELSE comps[1] \o "/" \o JoinComps(Tail(comps))

os_path_normpath_body(path0) ==
  LET p == path0 IN
  IF p = "" THEN "."
  ELSE IF IsNormalAbs(p) THEN p
  ELSE LET initial_slashes ==
             IF ~StartsWith(p, "/") THEN 0
             ELSE IF StartsWith(p, "//") /\ ~StartsWith(p, "///") THEN 2
             ELSE 1
           comps == NormComps(Split(p, "/"), <<>>, initial_slashes)
           body == JoinComps(comps)
           path == (IF initial_slashes = 2 THEN "//"
                    ELSE IF initial_slashes = 1 THEN "/" ELSE "") \o body
       IN IF path = "" THEN "." ELSE path

\* os.path.splitext(p)[1]
os_path_splitext_ext(p) ==
  LET base == os_path_basename(p)
      dot == RFind(base, ".")
      lead == Len(base) - Len(LStrip(base, "."))
  IN IF dot = 0 \/ dot <= lead THEN "" ELSE SubSeq(base, dot, Len(base))

(***************************************************************************)
(* The file tree                                                           *)
(*   fs.files    files, as normalized absolute paths, in listing order     *)
(*   fs.names    the same, as a set                                        *)
(*   fs.dirs     the directories                                           *)
(*   fs.listing  directory |-> the names of its files, in listing order    *)
(*   fs.content  document |-> its @...@ statements, in text order, each    *)
(*               [form, tok]: form is the composition arc or "asset" for   *)
(*               an asset-valued attribute, tok the text between the @s    *)
(*   fs.provider "ok" or "fail": whether the scene-graph provider answers  *)
(***************************************************************************)
RECURSIVE Ancestors(_)
\* The proper ancestor directories of a normalized absolute path.
Ancestors(p) ==
  IF p = "/" \/ p = "" THEN {}
  ELSE LET d == os_path_dirname(p) IN IF d = p THEN {} ELSE {d} \cup Ancestors(d)

Range(seq) == {seq[i] : i \in 1..Len(seq)}

\* The directories of a tree with the files `files` and the further,
\* possibly empty, directories `extra`.
DirsOf(files, extra) ==
  {"/"} \cup extra
        \cup UNION {Ancestors(d) : d \in extra}
        \cup UNION {Ancestors(f) : f \in Range(files)}

\* The subsequence of seq that Keep accepts.
FilterSeq(seq, Keep(_)) ==
  LET idx == {i \in 1..Len(seq) : Keep(seq[i])}
  IN [k \in 1..Cardinality(idx) |->
        seq[CHOOSE i \in idx : Cardinality({j \in idx : j <= i}) = k]]

\* The names of the files directly in directory dn, in listing order.
Listing(files, dn) ==
  LET InDir(f) == os_path_dirname(f) = dn
      own == FilterSeq(files, InDir)
  IN [k \in 1..Len(own) |-> os_path_basename(own[k])]

\* The tree with the files `files`, the further directories `extra`, the
\* documents `content` and the provider `provider`.
Tree_body(files, extra, content, provider) ==
  [files |-> files,
   names |-> Range(files),
   dirs |-> DirsOf(files, extra),
   listing |-> [dn \in DirsOf(files, extra) |-> Listing(files, dn)],
   content |-> content,
   provider |-> provider]

AllDirs(tree) == tree.dirs

os_path_isfile(tree, path) ==
  LET p == path IN p # "" /\ os_path_normpath(p) \in tree.names

os_path_isdir(tree, path) ==
  LET p == path IN p # "" /\ os_path_normpath(p) \in AllDirs(tree)

os_path_exists(tree, path) ==
  LET p == os_path_normpath(path)
  IN path # "" /\ (p \in tree.names \/ p \in AllDirs(tree))

\* The process's working directory.
os_getcwd == "/w"

\* os.listdir(d), files only: the names of the files directly in d, in
\* listing order.
os_listdir(tree, d) ==
  LET dn == os_path_normpath(d)
  IN IF dn \in DOMAIN tree.listing THEN tree.listing[dn] ELSE <<>>

\* The files os.walk(top) yields, as full paths in visiting order: top-down,
\* a directory's own files before its subdirectories.
os_walk_body(tree, top) ==
  LET tn == os_path_normpath(top)
      own == [k \in 1..Len(os_listdir(tree, tn)) |->
                os_path_join(tn, os_listdir(tree, tn)[k])]
      subs == {d \in AllDirs(tree) : d # tn /\ os_path_dirname(d) = tn}
      RECURSIVE Below(_)
      Below(S) == IF S = {} THEN <<>>
                  ELSE LET d == CHOOSE x \in S : TRUE
                       IN os_walk(tree, d) \o Below(S \ {d})
  IN IF ~os_path_isdir(tree, tn) THEN <<>> ELSE own \o Below(subs)

(***************************************************************************)
(* EnhancedUsdAnalyzer.resolve_path                                        *)
(***************************************************************************)
\* The placeholder list of resolve_path, in its priority order.
ResolveUdimPatterns == <<"<UDIM>", "<udim>", ".####.", ".<UDIM>.", ".<udim>.">>

\* The first pattern of pats that occurs in s, None when none does.
FirstPattern(pats, str) ==
  LET s == str
      hits == {i \in 1..Len(pats) : Contains(s, pats[i])}
  IN IF hits = {} THEN None
     ELSE pats[CHOOSE i \in hits : \A j \in hits : i <= j]

\* The search of one staging directory: the restored path of the first
\* matching file, None when the directory is absent or holds no match.
SearchStaging(tree, staging_dir, file_path, is_udim, udim_pattern) ==
  LET file_name == os_path_basename(file_path)
      walk == os_walk(tree, staging_dir)
      Match(i) == LET file == os_path_basename(walk[i])
                  IN file = file_name
                     \/ (is_udim /\ StartsWith(file, Replace(file_name, ".1001.", "")))
      hits == {i \in 1..Len(walk) : Match(i)}
      found_path == walk[CHOOSE i \in hits : \A j \in hits : i <= j]
      dir_name == os_path_dirname(found_path)
      base_name == Replace(os_path_basename(file_path), ".1001.", "")
  IN IF ~os_path_exists(tree, staging_dir) \/ hits = {} THEN None
     ELSE IF is_udim
     THEN os_path_join(dir_name, Replace(base_name, ".", udim_pattern \o "."))
     ELSE found_path

\* ResolveAgainst that gives up when nothing is found.
ResolveAgainstOrNone(tree, file_path, base_dir, is_udim, udim_pattern) ==
  LET full_path == os_path_normpath(os_path_join(base_dir, file_path))
      restored == IF is_udim THEN Replace(full_path, ".1001.", udim_pattern)
                  ELSE full_path
      txt == SearchStaging(tree, os_path_join(os_path_dirname(base_dir), "txt"),
                           file_path, is_udim, udim_pattern)
      publish == SearchStaging(tree, os_path_join(os_path_dirname(base_dir), "publish"),
                               file_path, is_udim, udim_pattern)
  IN IF os_path_exists(tree, full_path) THEN restored
     ELSE IF txt # None THEN txt
     ELSE IF publish # None THEN publish
     ELSE None

\* The branch of resolve_path for a relative path and a base directory
\* (the "../" branch and the plain branch of the source are the same code).
ResolveAgainst(tree, file_path, base_dir, is_udim, udim_pattern) ==
  LET full_path == os_path_normpath(os_path_join(base_dir, file_path))
      restored == IF is_udim THEN Replace(full_path, ".1001.", udim_pattern)
                  ELSE full_path
      txt == SearchStaging(tree, os_path_join(os_path_dirname(base_dir), "txt"),
                           file_path, is_udim, udim_pattern)
      publish == SearchStaging(tree, os_path_join(os_path_dirname(base_dir), "publish"),
                               file_path, is_udim, udim_pattern)
  IN IF os_path_exists(tree, full_path) THEN restored
     ELSE IF txt # None THEN txt
     ELSE IF publish # None THEN publish
     ELSE restored

\* The branch of resolve_path without base directory.
ResolveCwd(tree, file_path, is_udim, udim_pattern) ==
  LET full_path == os_path_normpath(os_path_join(os_getcwd, file_path))
  IN IF is_udim THEN Replace(full_path, ".1001.", udim_pattern) ELSE full_path

resolve_path_body(tree, file_path, base_dir) ==
  IF ~Truthy(file_path) THEN None
  ELSE IF os_path_isabs(file_path) THEN file_path
  ELSE LET stripped == Strip(Strip(file_path, Whitespace), "\"'")
           udim_pattern == FirstPattern(ResolveUdimPatterns, stripped)
           is_udim == udim_pattern # None
           test_path == IF is_udim THEN Replace(stripped, udim_pattern, ".1001.")
                        ELSE stripped
       IN IF Truthy(base_dir)
          THEN ResolveAgainst(tree, test_path, base_dir, is_udim, udim_pattern)
          ELSE ResolveCwd(tree, test_path, is_udim, udim_pattern)

(***************************************************************************)
(* EnhancedUsdAnalyzer.normalize_path                                      *)
(***************************************************************************)
normalize_path(path) ==
  IF ~Truthy(path) THEN None
  ELSE LET norm_path == Replace(os_path_normpath(path), "\\", "/")
       IN IF Len(norm_path) > 1 /\ Char(norm_path, 2) = ":"
          THEN UpperChar(Char(norm_path, 1)) \o ":" \o SubSeq(norm_path, 3, Len(norm_path))
          ELSE norm_path

(***************************************************************************)
(* Token classification                                                    *)
(***************************************************************************)
AnyContains(str, pats) ==
  LET s == str IN \E i \in 1..Len(pats) : Contains(s, pats[i])

AnyEndsWith(str, pats) ==
  LET s == str IN \E i \in 1..Len(pats) : EndsWith(s, pats[i])

texture_extensions ==
  <<".jpg", ".jpeg", ".png", ".tif", ".tiff", ".exr", ".hdr", ".tx", ".tex",
    ".bmp", ".gif", ".psd", ".tga", ".iff", ".dpx", ".cin", ".svg">>

texture_keywords ==
  <<"texture", "map", "image", "tex", "diffuse", "albedo", "normal", "roughness",
    "metallic", "specular", "emission", "occlusion", "height", "bump", "color",
    "opacity", "displacement">>

texture_dir_keywords ==
  <<"/texture/", "/textures/", "/tex/", "/maps/", "/images/", "/txt/", "/publish/">>

is_likely_texture_path_body(path0) ==
  LET path == Strip(Strip(path0, Whitespace), "\"'")
      low == Lower(path)
      has_texture_ext == AnyEndsWith(low, texture_extensions)
      has_udim == AnyContains(path, <<"<UDIM>", "<udim>", ".####.", ".<udim>.",
                                      ".<UDIM>.", "1001.", "10[0-9][0-9]">>)
      has_texture_keyword == AnyContains(low, texture_keywords)
      has_texture_dir == AnyContains(Replace(low, "\\", "/"), texture_dir_keywords)
  IN /\ Truthy(path0)
     /\ \/ has_texture_ext
        \/ has_udim
        \/ has_texture_dir
        \/ (has_texture_keyword /\ Contains(path, "."))

is_likely_usd_path_body(path0) ==
  LET path == Strip(path0, "\"'")
      low == Lower(path)
      has_usd_ext == AnyEndsWith(low, <<".usd", ".usda", ".usdc", ".usdz">>)
      has_usd_pattern == AnyContains(low, <<"/usd/", "/assets/", "/publish/",
                                                    "/model/", "/lookdev/", "/animation/">>)
      looks_like_path == (Contains(path, "/") \/ Contains(path, "\\"))
                         /\ ~StartsWith(path, "http")
  IN has_usd_ext \/ (looks_like_path /\ has_usd_pattern)

(***************************************************************************)
(* dict, as the sequence of its [k, v] items in insertion order            *)
(***************************************************************************)
DictHas(d, k) == \E i \in 1..Len(d) : d[i].k = k

DictGet(d, k, default) ==
  IF DictHas(d, k) THEN d[CHOOSE i \in 1..Len(d) : d[i].k = k].v ELSE default

\* d[k] = v: a present key keeps its position.
DictSet(d, k, v) ==
  IF DictHas(d, k)
  THEN [i \in 1..Len(d) |-> IF d[i].k = k THEN [k |-> k, v |-> v] ELSE d[i]]
  ELSE Append(d, [k |-> k, v |-> v])

DictKeys(d) == {d[i].k : i \in 1..Len(d)}

(***************************************************************************)
(* Pattern matching                                                        *)
(***************************************************************************)
RECURSIVE re_match(_, _)
\* re.match(pattern, s) for the patterns add_texture_path builds out of a
\* file name: "\d{4}" is four digits, an unescaped "." any character, every
\* other character itself; the match is anchored at the start only.
re_match(pattern, s) ==
  IF pattern = "" THEN TRUE
  ELSE IF StartsWith(pattern, "\\d{4}")
  THEN /\ Len(s) >= 4
       /\ AllDigits(SubSeq(s, 1, 4))
       /\ re_match(SubSeq(pattern, 6, Len(pattern)), SubSeq(s, 5, Len(s)))
  ELSE /\ s # ""
       /\ Char(pattern, 1) = "." \/ Char(pattern, 1) = Char(s, 1)
       /\ re_match(Tail(pattern), Tail(s))

\* ^<pre>(\d{4})<suf>$ when four, ^<pre>(\d+)<suf>$ otherwise, pre and suf
\* escaped.
MatchIndexed(file, pre, suf, four) ==
  LET mid == SubSeq(file, Len(pre) + 1, Len(file) - Len(suf))
  IN /\ Len(file) >= Len(pre) + Len(suf) + 1
     /\ StartsWith(file, pre)
     /\ EndsWith(file, suf)
     /\ AllDigits(mid)
     /\ four => Len(mid) = 4

RECURSIVE fnmatch(_, _)
\* fnmatch.fnmatchcase(s, pat) for patterns whose only wildcard is "*".
fnmatch(s, pat) ==
  IF pat = "" THEN s = ""
  ELSE IF Char(pat, 1) = "*"
  THEN \E k \in 1..(Len(s) + 1) : fnmatch(SubSeq(s, k, Len(s)), Tail(pat))
  ELSE s # "" /\ Char(s, 1) = Char(pat, 1) /\ fnmatch(Tail(s), Tail(pat))

\* len(glob.glob(pattern)), the wildcards in the last component: the entries
\* of the directory the name pattern matches, dot files only for a pattern
\* that starts with a dot.
glob_count(tree, pattern) ==
  LET d == os_path_dirname(pattern)
      name == os_path_basename(pattern)
      files == {i \in 1..Len(tree.files) :
                  /\ os_path_dirname(tree.files[i]) = os_path_normpath(d)
                  /\ fnmatch(os_path_basename(tree.files[i]), name)
                  /\ StartsWith(os_path_basename(tree.files[i]), ".") => StartsWith(name, ".")}
      subdirs == {x \in AllDirs(tree) :
                  /\ x # "/"
                  /\ os_path_dirname(x) = os_path_normpath(d)
                  /\ fnmatch(os_path_basename(x), name)
                  /\ StartsWith(os_path_basename(x), ".") => StartsWith(name, ".")}
  IN IF Contains(name, "*")
     THEN IF os_path_isdir(tree, d) THEN Cardinality(files) + Cardinality(subdirs) ELSE 0
     ELSE IF os_path_exists(tree, pattern) THEN 1 ELSE 0

(***************************************************************************)
(* Tile sets                                                               *)
(***************************************************************************)
\* The placeholder list of the tile functions, in their priority order.
udim_patterns == <<"<UDIM>", "<udim>", ".####.", ".<udim>.", ".<UDIM>.">>

\* The number of names in the listing of dir_path that satisfy Test.
CountListed(tree, dir_path, Test(_)) ==
  LET names == os_listdir(tree, dir_path)
  IN Cardinality({i \in 1..Len(names) : Test(names[i])})

\* NotUdimCount as if the file itself were counted.
FileCount(tree, path) == IF os_path_exists(tree, path) THEN 1 ELSE 0

\* What count_udim_textures_in_path returns for a path whose file name
\* holds no placeholder.
NotUdimCount(tree, path) == 0

count_udim_textures_in_path_body(tree, udim_path) ==
  IF ~Truthy(udim_path) THEN 0
  ELSE
  LET path == Replace(udim_path, "\\", "/")
      dir_path == os_path_dirname(path)
      file_name == os_path_basename(path)
      is_udim == AnyContains(file_name, udim_patterns)
      pattern_found == FirstPattern(udim_patterns, file_name)
      parts == Split(file_name, pattern_found)
      base_name == parts[1]
      extension == parts[2]
      Strict(file) ==
        IF pattern_found \in {"<UDIM>", "<udim>"}
        THEN MatchIndexed(file, base_name, extension, TRUE)
        ELSE MatchIndexed(file, base_name \o ".", "." \o extension, TRUE)
      Matched(file) ==
        \/ Strict(file)
        \/ MatchIndexed(file, base_name \o ".", "." \o extension, FALSE)
        \/ MatchIndexed(file, base_name, extension, FALSE)
      count == CountListed(tree, dir_path, Matched)
      wildcard_path ==
        Replace(Replace(Replace(Replace(Replace(path,
          "<UDIM>", "*"), "<udim>", "*"), ".####.", ".*."), ".<udim>.", ".*."), ".<UDIM>.", ".*.")
  IN IF ~os_path_exists(tree, dir_path) THEN 0
     ELSE IF ~is_udim THEN NotUdimCount(tree, path)
     ELSE IF base_name = "" \/ extension = "" THEN 0
     ELSE IF count = 0 THEN glob_count(tree, wildcard_path)
     ELSE count

count_actual_textures_body(tree, base_path) ==
  IF ~Truthy(base_path) THEN 0
  ELSE
  LET path == Replace(base_path, "\\", "/")
      dir_path == os_path_dirname(path)
      file_name == os_path_basename(path)
      is_udim == AnyContains(path, udim_patterns)
      pattern_found == FirstPattern(udim_patterns, file_name)
      parts == Split(file_name, pattern_found)
      base_name == IF pattern_found = None THEN "" ELSE parts[1]
      extension == IF pattern_found = None THEN "" ELSE parts[2]
      Tile(file) ==
        /\ StartsWith(file, base_name)
        /\ EndsWith(file, "." \o extension)
        /\ Len(file) >= Len(base_name) + Len(extension) + 1
      udim_count == CountListed(tree, dir_path, Tile)
      Image(file) == Lower(os_path_splitext_ext(file)) \in
                       {".jpg", ".jpeg", ".png", ".tif", ".tiff", ".exr", ".hdr", ".tx", ".tex"}
  IN IF ~os_path_exists(tree, dir_path) THEN 0
     ELSE IF is_udim /\ base_name # "" /\ extension # "" /\ udim_count > 0 THEN udim_count
     ELSE CountListed(tree, dir_path, Image)

(***************************************************************************)
(* The scene documents                                                     *)
(***************************************************************************)
\* open(p).read() succeeds: p is a file with text.
Readable(tree, p) == os_path_normpath(p) \in DOMAIN tree.content

\* The statements of document p.
Statements(tree, p) == tree.content[os_path_normpath(p)]

\* re.findall(r'@([^@]+)@', content): the tokens of p in text order.  The
\* tokens of the model hold no "@", whitespace or quote, so that the
\* pattern r'@([^@\s"\']+)' finds the same ones.
AtTokens(tree, p) ==
  [i \in 1..Len(Statements(tree, p)) |-> Statements(tree, p)[i].tok]

\* What the scene-graph provider reports for document abs_path, in the order
\* the traversal asks: the sub-layers of the layer stack, then the prims'
\* references and payloads.  A layer comes with its identifier, anchored to
\* the document's directory; a payload with its authored asset path.
Provider(tree, abs_path) ==
  LET Anchor(tok) == os_path_normpath(os_path_join(os_path_dirname(abs_path), tok))
      IsLayer(st) == st.form = "subLayer"
      IsArc(st) == st.form \in {"reference", "payload"}
      Entry(st) == [kind |-> st.form,
                    path |-> IF st.form = "payload" THEN st.tok ELSE Anchor(st.tok)]
      layers == FilterSeq(Statements(tree, abs_path), IsLayer)
      arcs == FilterSeq(Statements(tree, abs_path), IsArc)
  IN [i \in 1..(Len(layers) + Len(arcs)) |->
        IF i <= Len(layers) THEN Entry(layers[i]) ELSE Entry(arcs[i - Len(layers)])]

\* Usd.Stage.Open(abs_path) returns a stage.
ProviderAnswers(tree, abs_path) == tree.provider = "ok" /\ Readable(tree, abs_path)

(***************************************************************************)
(* EnhancedUsdAnalyzer: the fields of an instance `an`                     *)
(*   processed_assets, texture_files (dict path -> source),                *)
(*   referenced_usd_files, references (list of [path, type]),              *)
(*   texture_udim_counts (dict path -> count)                              *)
(* and, for the record of a run,                                           *)
(*   entered    the paths whose traversal body was entered, in order       *)
(*   exhausted  the recursion went deeper than MaxDepth                    *)
(*   cleared    the texture entries that the clearing step of a shader     *)
(*              override removed, with the document it was entered for     *)
(*   raw_references, raw_textures                                          *)
(*              references and texture_files as the traversal of the last  *)
(*              analysis left them, before analyze_usd_file rebuilt them   *)
(***************************************************************************)
NewAnalyzer ==
  [processed_assets |-> {}, texture_files |-> <<>>, referenced_usd_files |-> {},
   references |-> <<>>, texture_udim_counts |-> <<>>,
   entered |-> <<>>, exhausted |-> FALSE, cleared |-> <<>>,
   raw_references |-> <<>>, raw_textures |-> <<>>]

reset(an) ==
  [an EXCEPT !.processed_assets = {}, !.texture_files = <<>>,
             !.referenced_usd_files = {}, !.references = <<>>,
             !.texture_udim_counts = <<>>]

add_texture_path_body(tree, an, path, source) ==
  IF ~Truthy(path) THEN an
  ELSE
  LET is_udim == AnyContains(path, <<"<UDIM>", "<udim>", ".####.", ".<udim>.", ".<UDIM>.">>)
      base_dir == os_path_dirname(path)
      file_name == os_path_basename(path)
      pattern ==
        IF Contains(file_name, "<UDIM>") \/ Contains(file_name, "<udim>")
        THEN Replace(Replace(file_name, "<UDIM>", "\\d{4}"), "<udim>", "\\d{4}")
        ELSE IF Contains(file_name, ".####.")
        THEN Replace(file_name, ".####.", ".\\d{4}.")
        ELSE file_name
      Hit(file) == re_match(pattern, file)
      udim_count == IF os_path_exists(tree, base_dir)
                    THEN CountListed(tree, base_dir, Hit) ELSE 0
      counted == IF is_udim
                 THEN [an EXCEPT !.texture_udim_counts = DictSet(@, path, udim_count)]
                 ELSE an
  IN IF DictHas(counted.texture_files, path) THEN counted
     ELSE [counted EXCEPT !.texture_files = DictSet(@, path, source)]

\* The references extract_references_from_text returns for file_path: the
\* tokens after an "@", then the ones the "references = @" and
\* "payload = @" patterns find again.
TextReferences(tree, file_path) ==
  LET IsRef(tok) == is_likely_usd_path(tok) /\ ~is_likely_texture_path(tok)
      Again(st) == st.form \in {"reference", "payload"} /\ st.tok # "" /\ IsRef(st.tok)
      again == FilterSeq(Statements(tree, file_path), Again)
  IN IF ~Readable(tree, file_path) THEN <<>>
     ELSE FilterSeq(AtTokens(tree, file_path), IsRef)
          \o [i \in 1..Len(again) |-> again[i].tok]

RECURSIVE AddTextTextures(_, _, _, _)
\* The texture loop of extract_references_from_text over the tokens toks.
AddTextTextures(tree, an, toks, file_path) ==
  IF toks = <<>> THEN an
  ELSE LET path == Head(toks)
           resolved_path == resolve_path(tree, path, os_path_dirname(file_path))
           source == os_path_basename(file_path) \o ":texture_reference"
           \* the extensions of the texture pattern of the text
           an1 == IF /\ AnyEndsWith(path,
                          <<".jpg", ".jpeg", ".png", ".tif", ".tiff", ".exr", ".hdr",
                            ".tx", ".tex", ".bmp", ".gif", ".psd", ".tga", ".iff",
                            ".dpx", ".cin", ".svg">>)
                     /\ is_likely_texture_path(path)
                     /\ Truthy(resolved_path)
                  THEN add_texture_path(tree, an, resolved_path, source)
                  ELSE an
       IN AddTextTextures(tree, an1, Tail(toks), file_path)

\* The effect of extract_references_from_text on the instance.
extract_references_from_text(tree, an, file_path) ==
  IF ~Readable(tree, file_path) THEN an
  ELSE AddTextTextures(tree, an, AtTokens(tree, file_path), file_path)

\* One of the existing references resolves, against dir, to resolved_path.
ref_already_added(tree, an, resolved_path, dir) ==
  LET norm_resolved == os_path_normpath(resolved_path) IN
  \E i \in 1..Len(an.references) :
    LET existing_full_path == resolve_path(tree, an.references[i].path, dir)
    IN /\ Truthy(existing_full_path)
       /\ os_path_normpath(existing_full_path) = norm_resolved

is_reference_already_added(tree, an, ref_path, effective_dir) ==
  LET resolved_ref_path == resolve_path(tree, ref_path, effective_dir)
  IN Truthy(resolved_ref_path) /\ ref_already_added(tree, an, resolved_ref_path, effective_dir)

\* The deepest recursion of extract_assets_from_usd the model follows.
MaxDepth == 8

RECURSIVE AtLoop(_, _, _, _, _, _)
RECURSIVE TextLoop(_, _, _, _, _)
RECURSIVE ProviderLoop(_, _, _, _, _, _)

\* The loop over the "@...@" tokens of a document, resolved against dir:
\* of shader/main.usda (label "shader") and of a .usda document (label its
\* file name).
AtLoop(tree, an, toks, dir, label, depth) ==
  IF toks = <<>> THEN an
  ELSE
  LET path == Head(toks)
      resolved_path == resolve_path(tree, path, dir)
      low == Lower(path)
      is_texture == /\ Contains(path, ".")
                    /\ AnyContains(low, <<".jpg", ".jpeg", ".png", ".tif", ".tiff",
                                          ".exr", ".hdr">>)
      is_usd == \/ Contains(low, ".usda")
                \/ Contains(low, ".usd")
                \/ Contains(low, ".usdz")
      source == IF AnyContains(path, <<"<UDIM>", "<udim>", ".####.", ".1001.">>)
                THEN label \o ":UDIM" ELSE label \o ":texture"
      an1 ==
        IF is_texture
        THEN IF Truthy(resolved_path)
             THEN add_texture_path(tree, an, resolved_path, source) ELSE an
        ELSE IF is_usd /\ Truthy(resolved_path)
                /\ ~ref_already_added(tree, an, resolved_path, dir)
        THEN extract_assets_from_usd(tree,
               [an EXCEPT !.references = Append(@, [path |-> path, type |-> "reference"])],
               resolved_path, dir, depth + 1)
        ELSE an
  IN AtLoop(tree, an1, Tail(toks), dir, label, depth)

\* The loop over the references found in the text of a document.
TextLoop(tree, an, refs, effective_dir, depth) ==
  IF refs = <<>> THEN an
  ELSE
  LET ref == Head(refs)
      full_ref_path == resolve_path(tree, ref, effective_dir)
      an1 ==
        IF Truthy(full_ref_path) /\ ~ref_already_added(tree, an, full_ref_path, effective_dir)
        THEN extract_assets_from_usd(tree,
               [an EXCEPT !.referenced_usd_files = @ \cup {full_ref_path},
                          !.references = Append(@, [path |-> ref, type |-> "reference"])],
               full_ref_path, effective_dir, depth + 1)
        ELSE an
  IN TextLoop(tree, an1, Tail(refs), effective_dir, depth)

\* The loops over what the provider reports for abs_path.
ProviderLoop(tree, an, entries, abs_path, effective_dir, depth) ==
  IF entries = <<>> THEN an
  ELSE
  LET e == Head(entries)
      listed == [an EXCEPT !.referenced_usd_files = @ \cup {e.path},
                           !.references = Append(@, [path |-> e.path, type |-> e.kind])]
      resolved_payload_path == resolve_path(tree, e.path, effective_dir)
      an1 ==
        IF e.kind = "subLayer"
        THEN IF e.path # abs_path
             THEN extract_assets_from_usd(tree, listed, e.path, effective_dir, depth + 1)
             ELSE an
        ELSE IF e.kind = "reference"
        THEN extract_assets_from_usd(tree, listed, e.path, effective_dir, depth + 1)
        ELSE IF e.path # "" /\ Truthy(resolved_payload_path)
        THEN extract_assets_from_usd(tree, listed, resolved_payload_path, effective_dir, depth + 1)
        ELSE IF e.path # "" THEN listed ELSE an
  IN ProviderLoop(tree, an1, Tail(entries), abs_path, effective_dir, depth)

\* AlreadyProcessed that knows only the path entered last.
AlreadyProcessedLastOnly(an, abs_path) ==
  an.entered # <<>> /\ an.entered[Len(an.entered)] = abs_path

\* The visited-set test at the head of extract_assets_from_usd.
AlreadyProcessed(an, abs_path) == abs_path \in an.processed_assets

\* The shader override of abs_path applies: shader/main.usda is a file.
HasShaderOverride(tree, abs_path) ==
  LET shader_dir == os_path_join(os_path_dirname(abs_path), "shader")
      main_usda_path == os_path_join(shader_dir, "main.usda")
  IN /\ os_path_exists(tree, shader_dir) /\ os_path_isdir(tree, shader_dir)
     /\ os_path_exists(tree, main_usda_path) /\ os_path_isfile(tree, main_usda_path)

\* The shader block: shader/main.usda is listed, the textures are cleared
\* and the tokens of shader/main.usda are walked.
ShaderBlock(tree, an, abs_path, effective_dir, depth) ==
  LET shader_dir == os_path_join(os_path_dirname(abs_path), "shader")
      main_usda_path == os_path_join(shader_dir, "main.usda")
      listed == IF is_reference_already_added(tree, an, main_usda_path, effective_dir)
                THEN an
                ELSE [an EXCEPT !.references =
                        Append(@, [path |-> main_usda_path, type |-> "shader"])]
      cleared == [listed EXCEPT
                    !.texture_files = <<>>,
                    !.cleared = @ \o [i \in 1..Len(listed.texture_files) |->
                                        [path |-> listed.texture_files[i].k,
                                         source |-> listed.texture_files[i].v,
                                         at |-> abs_path]]]
  IN IF Readable(tree, main_usda_path)
     THEN AtLoop(tree, cleared, AtTokens(tree, main_usda_path), shader_dir, "shader", depth)
     ELSE cleared

\* MainBlock where a document that cannot be read ends the collection: what
\* was found so far is lost.
MainBlockLosing(tree, an, abs_path, effective_dir, depth) ==
  LET file_ext == Lower(os_path_splitext_ext(abs_path))
      current_usd_name == os_path_basename(abs_path)
      an1 == TextLoop(tree, extract_references_from_text(tree, an, abs_path),
                      TextReferences(tree, abs_path), effective_dir, depth)
      an2 == AtLoop(tree, an1, AtTokens(tree, abs_path), effective_dir,
                    current_usd_name, depth)
  IN IF ~Readable(tree, abs_path)
     THEN [an EXCEPT !.references = <<>>, !.texture_files = <<>>]
     ELSE IF ProviderAnswers(tree, abs_path)
     THEN ProviderLoop(tree, IF file_ext = ".usda" THEN an2 ELSE an1,
                       Provider(tree, abs_path), abs_path, effective_dir, depth)
     ELSE IF file_ext = ".usda" THEN an2 ELSE an1

\* The processing of the document itself: text references, "@...@" tokens
\* of a .usda file, provider.
MainBlock(tree, an, abs_path, effective_dir, depth) ==
  LET file_ext == Lower(os_path_splitext_ext(abs_path))
      current_usd_name == os_path_basename(abs_path)
      an1 == TextLoop(tree, extract_references_from_text(tree, an, abs_path),
                      TextReferences(tree, abs_path), effective_dir, depth)
      an2 == IF file_ext = ".usda" /\ Readable(tree, abs_path)
             THEN AtLoop(tree, an1, AtTokens(tree, abs_path), effective_dir,
                         current_usd_name, depth)
             ELSE an1
  IN IF ProviderAnswers(tree, abs_path)
     THEN ProviderLoop(tree, an2, Provider(tree, abs_path), abs_path, effective_dir, depth)
     ELSE an2

\* extract_assets_from_usd that goes on to the document's own content
\* whatever its shader override yields.
extract_assets_from_usd_and_own(tree, an, usd_file_path, base_dir, depth) ==
  LET abs_path == resolve_path(tree, usd_file_path, base_dir) IN
  IF ~Truthy(abs_path) \/ AlreadyProcessed(an, abs_path) THEN an
  ELSE IF depth > MaxDepth THEN [an EXCEPT !.exhausted = TRUE]
  ELSE
  LET visited == [an EXCEPT !.processed_assets = @ \cup {abs_path},
                            !.entered = Append(@, abs_path)]
      current_dir == os_path_dirname(abs_path)
      effective_dir == IF Truthy(base_dir) THEN base_dir ELSE current_dir
      shaded == ShaderBlock(tree, visited, abs_path, effective_dir, depth)
  IN IF ~os_path_exists(tree, abs_path) THEN visited
     ELSE IF HasShaderOverride(tree, abs_path)
     THEN MainBlock(tree, shaded, abs_path, effective_dir, depth)
     ELSE MainBlock(tree, visited, abs_path, effective_dir, depth)

extract_assets_from_usd_body(tree, an, usd_file_path, base_dir, depth) ==
  LET abs_path == resolve_path(tree, usd_file_path, base_dir) IN
  IF ~Truthy(abs_path) \/ AlreadyProcessed(an, abs_path) THEN an
  ELSE IF depth > MaxDepth THEN [an EXCEPT !.exhausted = TRUE]
  ELSE
  LET visited == [an EXCEPT !.processed_assets = @ \cup {abs_path},
                            !.entered = Append(@, abs_path)]
      current_dir == os_path_dirname(abs_path)
      effective_dir == IF Truthy(base_dir) THEN base_dir ELSE current_dir
      shaded == ShaderBlock(tree, visited, abs_path, effective_dir, depth)
  IN IF ~os_path_exists(tree, abs_path) THEN visited
     ELSE IF HasShaderOverride(tree, abs_path)
     THEN IF shaded.texture_files # <<>> THEN shaded
          ELSE MainBlock(tree, shaded, abs_path, effective_dir, depth)
     ELSE MainBlock(tree, visited, abs_path, effective_dir, depth)

\* IsDuplicate with the paths compared as they are spelled.
IsDuplicateExact(unique, norm_path) ==
  \E i \in 1..Len(unique) : norm_path = unique[i].path

(***************************************************************************)
(* EnhancedUsdAnalyzer.analyze_usd_file                                    *)
(***************************************************************************)
\* norm_path equals one of unique, letter case ignored.
IsDuplicate(unique, norm_path) ==
  \E i \in 1..Len(unique) : Lower(norm_path) = Lower(unique[i].path)

\* KeepReference without the test that the file exists.
KeepReferenceUnchecked(tree, unique, resolved_path, norm_path) ==
  /\ Truthy(resolved_path)
  /\ Truthy(norm_path)
  /\ ~IsDuplicate(unique, norm_path)

\* The tests a reference passes to enter the list unique: it resolves, its
\* file exists, and its normalized path is not there yet.
KeepReference(tree, unique, resolved_path, norm_path) ==
  /\ Truthy(resolved_path)
  /\ os_path_exists(tree, resolved_path)
  /\ Truthy(norm_path)
  /\ ~IsDuplicate(unique, norm_path)

RECURSIVE UniqueReferences(_, _, _, _)
\* The reference loop of analyze_usd_file over refs, unique the list so far.
UniqueReferences(tree, refs, original_dir, unique) ==
  IF refs = <<>> THEN unique
  ELSE
  LET resolved_path == resolve_path(tree, Head(refs).path, original_dir)
      norm_path == normalize_path(resolved_path)
  IN UniqueReferences(tree, Tail(refs), original_dir,
       IF KeepReference(tree, unique, resolved_path, norm_path)
       THEN Append(unique, [path |-> norm_path, type |-> Head(refs).type])
       ELSE unique)

RECURSIVE UniqueTextures(_, _, _, _)
\* The texture loop of analyze_usd_file over the items texs of texture_files;
\* acc holds unique_textures and texture_udim_counts so far.
UniqueTextures(tree, texs, original_dir, acc) ==
  IF texs = <<>> THEN acc
  ELSE
  LET source == Head(texs).v
      resolved_path == resolve_path(tree, Head(texs).k, original_dir)
      norm_path == normalize_path(resolved_path)
      is_udim == AnyContains(norm_path, <<"<UDIM>", "<udim>", ".####.", ".<udim>.", ".<UDIM>.">>)
      texture_count == IF is_udim THEN count_udim_textures_in_path(tree, norm_path)
                       ELSE count_actual_textures(tree, norm_path)
      keep == /\ Truthy(resolved_path)
              /\ Truthy(norm_path)
              /\ IF is_udim THEN texture_count > 0 ELSE os_path_exists(tree, norm_path)
  IN UniqueTextures(tree, Tail(texs), original_dir,
       IF keep
       THEN [unique_textures |-> DictSet(acc.unique_textures, norm_path, source),
             texture_udim_counts |-> DictSet(acc.texture_udim_counts, norm_path, texture_count)]
       ELSE acc)

\* StartAnalysis without the reset of processed_assets.
StartAnalysisKeepingVisited(an) ==
  [an EXCEPT !.references = <<>>,
             !.texture_files = <<>>, !.texture_udim_counts = <<>>,
             !.entered = <<>>, !.exhausted = FALSE, !.cleared = <<>>]

\* The state analyze_usd_file starts from: the fields it sets anew.
StartAnalysis(an) ==
  [an EXCEPT !.processed_assets = {}, !.references = <<>>,
             !.texture_files = <<>>, !.texture_udim_counts = <<>>,
             !.entered = <<>>, !.exhausted = FALSE, !.cleared = <<>>]

\* The instance after analyze_usd_file(file_path, original_dir); the report
\* it returns is Report of that instance.
analyze_usd_file_body(tree, an, file_path, original_dir) ==
  LET fresh == StartAnalysis(an)
      walked == extract_assets_from_usd(tree, fresh, file_path, original_dir, 0)
      unique_references == UniqueReferences(tree, walked.references, original_dir, <<>>)
      textures == UniqueTextures(tree, walked.texture_files, original_dir,
                    [unique_textures |-> <<>>,
                     texture_udim_counts |-> walked.texture_udim_counts])
  IN [walked EXCEPT !.references = unique_references,
                    !.texture_files = textures.unique_textures,
                    !.texture_udim_counts = textures.texture_udim_counts,
                    !.raw_references = walked.references,
                    !.raw_textures = walked.texture_files]

\* The result analyze_usd_file builds from the instance it leaves.
Report_body(tree, an) ==
  [references |->
     [i \in 1..Len(an.references) |->
        [path |-> an.references[i].path, type |-> an.references[i].type,
         exists |-> os_path_exists(tree, an.references[i].path)]],
   textures |->
     [i \in 1..Len(an.texture_files) |->
        [path |-> an.texture_files[i].k, source |-> an.texture_files[i].v,
         exists |-> TRUE,
         actual_texture_count |-> DictGet(an.texture_udim_counts, an.texture_files[i].k, 1)]],
   texture_udim_counts |-> an.texture_udim_counts]

(***************************************************************************)
(* main.py: package_files                                                  *)
(*   a tree of this part has one more field                                *)
(*   fs.locked   the files shutil.copy2 cannot read                        *)
(***************************************************************************)
\* path.replace('\\', '/').split('/')
PathParts(path) == Split(Replace(path, "\\", "/"), "/")

\* seq.index(x) + 1 for an x the sequence contains.
IndexOf(seq, x) == CHOOSE i \in 1..Len(seq) : seq[i] = x /\ \A j \in 1..(i - 1) : seq[j] # x

\* 'filmserver' in path_parts
HasMarker(path) == "filmserver" \in Range(PathParts(path))

\* The relative path of a path with the segment 'filmserver': the segments
\* after the first one, the base name when it is the last segment.
MarkerRelative(path) ==
  LET path_parts == PathParts(path)
      filmserver_index == IndexOf(path_parts, "filmserver")
  IN IF filmserver_index < Len(path_parts)
     THEN JoinComps(SubSeq(path_parts, filmserver_index + 1, Len(path_parts)))
     ELSE os_path_basename(path)

\* The relative path package_files gives the main file.
main_relative_path(source_file) ==
  IF HasMarker(source_file) THEN MarkerRelative(source_file)
  ELSE os_path_basename(source_file)

\* path.replace(source_dir, '').lstrip('/'); str.replace with an empty
\* pattern and an empty replacement leaves the string as it is.
WithoutSourceDir(path, source_dir) ==
  LStrip(IF source_dir = "" THEN path ELSE Replace(path, source_dir, ""), "/")

ref_key_folders == <<"USD", "usd", "assets", "scenes", "shots", "env", "aa">>

tex_key_folders ==
  <<"texture", "textures", "tex", "maps", "images", "txt", "publish", "USD", "usd", "assets">>

\* The first folder of key_folders that is among parts, None without one.
FirstKeyFolder(key_folders, parts) ==
  LET found == {k \in 1..Len(key_folders) : key_folders[k] \in Range(parts)}
  IN IF found = {} THEN None
     ELSE key_folders[CHOOSE k \in found : \A j \in found : k <= j]

\* os.path.join(basename(dirname(path)), basename(path))
ParentAndName(path) ==
  os_path_join(os_path_basename(os_path_dirname(path)), os_path_basename(path))

\* The relative path package_files gives a reference.
ref_relative_path_body(source_file, ref_path) ==
  LET ref_path_parts == PathParts(ref_path)
      source_dir == Replace(os_path_dirname(source_file), "\\", "/")
      ref_dir == Replace(os_path_dirname(ref_path), "\\", "/")
      key_folder == FirstKeyFolder(ref_key_folders, ref_path_parts)
  IN IF HasMarker(ref_path) THEN MarkerRelative(ref_path)
     ELSE IF StartsWith(ref_dir, source_dir) THEN WithoutSourceDir(ref_path, source_dir)
     ELSE IF key_folder # None
     THEN JoinComps(SubSeq(ref_path_parts, IndexOf(ref_path_parts, key_folder),
                           Len(ref_path_parts)))
     ELSE ParentAndName(ref_path)

\* tex_relative_path with the test of the main file's directory first.
tex_relative_path_dir_first(source_file, texture_path) ==
  LET source_dir == Replace(os_path_dirname(source_file), "\\", "/")
      tex_dir == Replace(os_path_dirname(texture_path), "\\", "/")
      tex_dir_parts == Split(tex_dir, "/")
      key_folder == FirstKeyFolder(tex_key_folders, tex_dir_parts)
  IN IF StartsWith(tex_dir, source_dir) THEN WithoutSourceDir(texture_path, source_dir)
     ELSE IF HasMarker(texture_path) THEN MarkerRelative(texture_path)
     ELSE IF key_folder # None
     THEN JoinComps(SubSeq(tex_dir_parts, IndexOf(tex_dir_parts, key_folder),
                           Len(tex_dir_parts))
                    \o <<os_path_basename(texture_path)>>)
     ELSE ParentAndName(texture_path)

\* The relative path package_files gives a texture file or a tile.
tex_relative_path_body(source_file, texture_path) ==
  LET source_dir == Replace(os_path_dirname(source_file), "\\", "/")
      tex_dir == Replace(os_path_dirname(texture_path), "\\", "/")
      tex_dir_parts == Split(tex_dir, "/")
      key_folder == FirstKeyFolder(tex_key_folders, tex_dir_parts)
  IN IF HasMarker(texture_path) THEN MarkerRelative(texture_path)
     ELSE IF StartsWith(tex_dir, source_dir) THEN WithoutSourceDir(texture_path, source_dir)
     ELSE IF key_folder # None
     THEN JoinComps(SubSeq(tex_dir_parts, IndexOf(tex_dir_parts, key_folder),
                           Len(tex_dir_parts))
                    \o <<os_path_basename(texture_path)>>)
     ELSE ParentAndName(texture_path)

\* glob.glob(pattern), the wildcards in the last component: the files of
\* the directory the name pattern matches, in listing order, and then its
\* subdirectories the pattern matches.
glob_glob(tree, pattern) ==
  LET d == os_path_dirname(pattern)
      name == os_path_basename(pattern)
      Matches(f) == /\ os_path_dirname(f) = os_path_normpath(d)
                    /\ fnmatch(os_path_basename(f), name)
                    /\ StartsWith(os_path_basename(f), ".") => StartsWith(name, ".")
      files == FilterSeq(tree.files, Matches)
      subdirs == {x \in AllDirs(tree) : x # "/" /\ Matches(x)}
      in_order == CHOOSE q \in [1..Cardinality(subdirs) -> subdirs] : Range(q) = subdirs
  IN IF ~os_path_isdir(tree, d) THEN <<>>
     ELSE [k \in 1..Len(files) |-> os_path_join(d, os_path_basename(files[k]))]
          \o [k \in 1..Cardinality(subdirs) |-> os_path_join(d, os_path_basename(in_order[k]))]

RECURSIVE IntOf(_)
\* int(s) of a string of digits.
IntOf(s) ==
  IF s = "" THEN 0
  ELSE 10 * IntOf(SubSeq(s, 1, Len(s) - 1)) + (Find(Digits, Char(s, Len(s))) - 1)

RECURSIVE MatchGroup(_, _, _)
\* re.match(pattern, s).group(1) for the patterns package_files builds out
\* of a file name: "(\d{4})" is four digits, captured, "\." a dot, an
\* unescaped "." any character, every other character itself; the match is
\* anchored at the start only.  None when there is no match.
MatchGroup(pattern, s, group) ==
  IF pattern = "" THEN group
  ELSE IF StartsWith(pattern, "(\\d{4})")
  THEN IF Len(s) >= 4 /\ AllDigits(SubSeq(s, 1, 4))
       THEN MatchGroup(SubSeq(pattern, 8, Len(pattern)), SubSeq(s, 5, Len(s)),
                       IF group = "" THEN SubSeq(s, 1, 4) ELSE group)
       ELSE None
  ELSE IF StartsWith(pattern, "\\.")
  THEN IF s # "" /\ Char(s, 1) = "."
       THEN MatchGroup(SubSeq(pattern, 3, Len(pattern)), Tail(s), group)
       ELSE None
  ELSE IF s # "" /\ (Char(pattern, 1) = "." \/ Char(pattern, 1) = Char(s, 1))
       THEN MatchGroup(Tail(pattern), Tail(s), group)
       ELSE None

\* The placeholders of package_files, in the order it tests them, each with
\* what replaces it in the glob pattern and in the regular expression: the
\* first of them the texture path contains, the placeholder None without
\* one.
PackagePattern(texture_path) ==
  LET package_udim_patterns ==
        <<[placeholder |-> "<UDIM>", glob |-> "*", re |-> "(\\d{4})"],
          [placeholder |-> "<udim>", glob |-> "*", re |-> "(\\d{4})"],
          [placeholder |-> ".####.", glob |-> ".*.", re |-> "\\.(\\d{4})\\."],
          [placeholder |-> ".<UDIM>.", glob |-> ".*.", re |-> "\\.(\\d{4})\\."],
          [placeholder |-> ".<udim>.", glob |-> ".*.", re |-> "\\.(\\d{4})\\."]>>
      found == {k \in 1..Len(package_udim_patterns) :
                  Contains(texture_path, package_udim_patterns[k].placeholder)}
  IN IF found = {} THEN [placeholder |-> None, glob |-> None, re |-> None]
     ELSE package_udim_patterns[CHOOSE k \in found : \A j \in found : k <= j]

\* verified_udim_files: the matching files whose name carries an index of
\* 1000..1999 where the placeholder stands, all matching files when there
\* is none.
VerifiedUdimFiles_body(tree, texture_path, udim) ==
  LET udim_pattern == Replace(texture_path, udim.placeholder, udim.glob)
      udim_dir == os_path_dirname(texture_path)
      matching_files == glob_glob(tree, os_path_join(udim_dir, os_path_basename(udim_pattern)))
      base_pattern == Replace(os_path_basename(texture_path), udim.placeholder, udim.re)
      Verified(file_path) ==
        LET g == MatchGroup(base_pattern, os_path_basename(file_path), "")
        IN g # None /\ 1000 <= IntOf(g) /\ IntOf(g) <= 1999
      verified_udim_files == FilterSeq(matching_files, Verified)
  IN IF verified_udim_files = <<>> THEN matching_files ELSE verified_udim_files

\* shutil.copy2(src, dst) raises: the source is a directory or cannot be
\* read, or source and destination are one file.
CopyFails(tree, src, dst) ==
  \/ os_path_isdir(tree, src)
  \/ os_path_normpath(src) \in tree.locked
  \/ os_path_normpath(src) = os_path_normpath(dst)

\* What a call has done so far is a record `done`:
\*   main, references, textures   the copied files of the response
\*   copies    the files written, [kind, source, target], in order
\*   reached   the entries of the request whose turn has come
\*   raised    an exception has left the loops
\* The copy of one file, outside a try statement.
CopyOrRaise(tree, done, kind, src, dst, entry) ==
  IF CopyFails(tree, src, dst) THEN [done EXCEPT !.raised = TRUE]
  ELSE [done EXCEPT !.copies = Append(@, [kind |-> kind, source |-> src, target |-> dst]),
                    ![kind] = IF kind = "main" THEN dst ELSE Append(@, entry)]

RECURSIVE CopyReferences(_, _, _, _)
\* for ref in request.references
CopyReferences(tree, request, refs, done) ==
  IF refs = <<>> THEN done
  ELSE LET ref == Head(refs)
           ref_path == ref.path
           ref_target_file ==
             os_path_join(request.output_path, ref_relative_path(request.file_path, ref_path))
           reached == [done EXCEPT !.reached = Append(@, ref)]
           copied == CopyOrRaise(tree, reached, "references", ref_path, ref_target_file,
                                 [source |-> ref_path, target |-> ref_target_file,
                                  type |-> ref.type])
       IN IF ref_path = "" \/ ~os_path_exists(tree, ref_path)
          THEN CopyReferences(tree, request, Tail(refs), reached)
          ELSE CopyReferences(tree, request, Tail(refs),
                              IF copied.raised THEN reached ELSE copied)

RECURSIVE CopyTiles(_, _, _, _, _)
\* for matching_file in verified_udim_files
CopyTiles(tree, request, texture, files, done) ==
  IF files = <<>> \/ done.raised THEN done
  ELSE LET matching_file == Head(files)
           tex_target_file ==
             os_path_join(request.output_path,
                          tex_relative_path(request.file_path, matching_file))
       IN CopyTiles(tree, request, texture, Tail(files),
                    IF os_path_isfile(tree, matching_file)
                    THEN CopyOrRaise(tree, done, "textures", matching_file, tex_target_file,
                                     [source |-> matching_file, target |-> tex_target_file,
                                      type |-> "UDIM", source_info |-> texture.source])
                    ELSE done)

RECURSIVE CopyTextures(_, _, _, _)
\* for texture in request.textures
CopyTextures(tree, request, texs, done) ==
  IF texs = <<>> \/ done.raised THEN done
  ELSE LET texture == Head(texs)
           texture_path == texture.path
           udim == PackagePattern(texture_path)
           tex_target_file ==
             os_path_join(request.output_path,
                          tex_relative_path(request.file_path, texture_path))
           reached == [done EXCEPT !.reached = Append(@, texture)]
       IN CopyTextures(tree, request, Tail(texs),
            IF texture_path = "" THEN reached
            ELSE IF udim.placeholder # None
            THEN IF ~os_path_exists(tree, os_path_dirname(texture_path)) THEN reached
                 ELSE CopyTiles(tree, request, texture,
                                VerifiedUdimFiles(tree, texture_path, udim), reached)
            ELSE IF os_path_exists(tree, texture_path)
            THEN CopyOrRaise(tree, reached, "textures", texture_path, tex_target_file,
                             [source |-> texture_path, target |-> tex_target_file,
                              type |-> "texture", source_info |-> texture.source])
            ELSE reached)

\* package_files(request): the response, and what the call did.
package_files_body(tree, request0) ==
  LET normalized_path == Replace(request0.file_path, "\\", "/")
      alternative_path == Replace(request0.file_path, "/", "\\")
      found == IF os_path_exists(tree, request0.file_path) THEN request0.file_path
               ELSE IF os_path_exists(tree, normalized_path) THEN normalized_path
               ELSE IF os_path_exists(tree, alternative_path) THEN alternative_path
               ELSE None
      request == [request0 EXCEPT !.file_path = found]
      source_file == found
      target_file == os_path_join(request.output_path, main_relative_path(source_file))
      NoCopies == [main |-> None, references |-> <<>>, textures |-> <<>>, copies |-> <<>>,
                   reached |-> <<>>, raised |-> FALSE]
      main == CopyOrRaise(tree, NoCopies, "main", source_file, target_file, None)
      references == CopyReferences(tree, request, request.references, main)
      textures == CopyTextures(tree, request, request.textures, references)
      Packaged(done) ==
        [success |-> TRUE,
         message |-> [text |-> "packaged", main |-> 1, references |-> Len(done.references),
                      textures |-> Len(done.textures), output_path |-> request.output_path],
         copied_files |-> [main |-> done.main, references |-> done.references,
                           textures |-> done.textures]]
      NotPackaged(text) == [success |-> FALSE, message |-> [text |-> text]]
  IN IF found = None
     THEN [response |-> NotPackaged("source file does not exist"), done |-> NoCopies]
     ELSE IF main.raised
     THEN [response |-> NotPackaged("packaging failed"), done |-> main]
     ELSE IF textures.raised
     THEN [response |-> NotPackaged("packaging failed"), done |-> textures]
     ELSE [response |-> Packaged(textures), done |-> textures]

(***************************************************************************)
(* The shading prims of a stage and their walk                             *)
(*   net    the Material and Shader prims of the stage, by name:           *)
(*          [type, id, inputs, outputs]; an input or output is             *)
(*          [name, source, value], source the shader it is connected to    *)
(*          or None, value what Get() returns: [kind, path] with kind      *)
(*          "str", "asset" (an Sdf.AssetPath) or "none"                    *)
(*   walk   the record of a walk: `walked` the shaders whose inputs were   *)
(*          walked, in order; `overflow` a call found the call stack full  *)
(***************************************************************************)
\* The deepest nesting of collect_textures_from_input the call stack holds.
MaxWalk == 6

RECURSIVE collect_textures_from_input(_, _, _, _)
RECURSIVE WalkInputs(_, _, _, _)

\* collect_textures_from_input at nesting depth: the input's name is
\* compared with the texture keywords and the result is not used; the
\* inputs of the shader the input is connected to are walked.  Nothing is
\* added to the textures.
collect_textures_from_input(net, walk, input, depth) ==
  LET input_name == Lower(input.name)
      texture_related ==
        AnyContains(input_name,
          <<"texture", "file", "map", "image", "tex", "diffuse", "albedo", "normal",
            "roughness", "metallic", "specular", "emission", "occlusion", "height",
            "bump", "color", "opacity", "displacement">>)
      shader_name == input.source
  IN IF shader_name # None /\ net[shader_name].type = "Shader"
     THEN WalkInputs(net, [walk EXCEPT !.walked = Append(@, shader_name)],
                     net[shader_name].inputs, depth)
     ELSE walk

\* for shader_input in shader.GetInputs(): collect_textures_from_input(...)
\* in a frame at nesting depth.  With the call stack full the call raises
\* RecursionError, which the frame's except clause logs: its loop ends.
WalkInputs(net, walk, inputs, depth) ==
  IF inputs = <<>> THEN walk
  ELSE IF depth + 1 > MaxWalk THEN [walk EXCEPT !.overflow = TRUE]
  ELSE LET called == collect_textures_from_input(net, walk, Head(inputs), depth + 1)
       IN \* the call returns before the loop goes on
          IF called.overflow \in BOOLEAN
          THEN WalkInputs(net, called, Tail(inputs), depth)
          ELSE called

RECURSIVE collect_textures_from_material(_, _, _, _)
\* The inputs of the material, then, from output number `from` on, the
\* inputs of the shaders its outputs are connected to.
collect_textures_from_material(net, walk, material, from) ==
  LET outputs == net[material].outputs
      shader_name == outputs[from].source
      inputs_walked == IF from = 1 THEN WalkInputs(net, walk, net[material].inputs, 0)
                       ELSE walk
  IN IF from > Len(outputs) THEN inputs_walked
     ELSE collect_textures_from_material(net,
            IF shader_name # None /\ net[shader_name].type = "Shader"
            THEN WalkInputs(net, inputs_walked, net[shader_name].inputs, 0)
            ELSE inputs_walked,
            material, from + 1)

\* examine_material_or_shader on the instance and the walk, st = [an, walk].
examine_material_or_shader(tree, net, st, prim, base_dir) ==
  LET shader_id == net[prim].id
      files == FilterSeq(net[prim].inputs, LAMBDA i : i.name = "file")
      texture_path == files[1].value
      resolved_path == resolve_path(tree, texture_path.path, base_dir)
      added == IF /\ Truthy(shader_id) /\ Contains(shader_id, "UsdUVTexture")
                  /\ files # <<>>
                  /\ texture_path.kind = "str" /\ texture_path.path # ""
                  /\ Truthy(resolved_path)
               THEN add_texture_path(tree, st.an, resolved_path, "UsdUVTexture:" \o prim)
               ELSE st.an
  IN IF net[prim].type = "Material"
     THEN [st EXCEPT !.walk = collect_textures_from_material(net, st.walk, prim, 1)]
     ELSE IF net[prim].type = "Shader"
     THEN [an |-> added, walk |-> WalkInputs(net, st.walk, net[prim].inputs, 0)]
     ELSE st

RECURSIVE ShadePrims_body(_, _, _, _, _)
\* The part of the provider step about shading, for the prims of the stage
\* in traversal order: a Material is walked, a Shader examined.
ShadePrims_body(tree, net, st, prims, effective_dir) ==
  IF prims = <<>> THEN st
  ELSE ShadePrims_body(tree, net,
         IF net[Head(prims)].type = "Material"
         THEN [st EXCEPT !.walk = collect_textures_from_material(net, st.walk, Head(prims), 1)]
         ELSE IF net[Head(prims)].type = "Shader"
         THEN examine_material_or_shader(tree, net, st, Head(prims), effective_dir)
         ELSE st,
         Tail(prims), effective_dir)

Call(name, a) ==
  CASE name = "os_path_normpath" ->
         os_path_normpath_body(a[1])
    [] name = "os_walk" ->
         os_walk_body(a[1], a[2])
    [] name = "resolve_path" ->
         resolve_path_body(a[1], a[2], a[3])
    [] name = "is_likely_texture_path" ->
         is_likely_texture_path_body(a[1])
    [] name = "is_likely_usd_path" ->
         is_likely_usd_path_body(a[1])
    [] name = "count_udim_textures_in_path" ->
         count_udim_textures_in_path_body(a[1], a[2])
    [] name = "count_actual_textures" ->
         count_actual_textures_body(a[1], a[2])
    [] name = "add_texture_path" ->
         add_texture_path_body(a[1], a[2], a[3], a[4])
    [] name = "extract_assets_from_usd" ->
         extract_assets_from_usd_body(a[1], a[2], a[3], a[4], a[5])
    [] name = "analyze_usd_file" ->
         analyze_usd_file_body(a[1], a[2], a[3], a[4])
    [] name = "Report" ->
         Report_body(a[1], a[2])
    [] name = "ref_relative_path" ->
         ref_relative_path_body(a[1], a[2])
    [] name = "tex_relative_path" ->
         tex_relative_path_body(a[1], a[2])
    [] name = "package_files" ->
         package_files_body(a[1], a[2])
    [] name = "Replace" ->
         Replace_body(a[1], a[2], a[3])
    [] name = "Find" ->
         Find_body(a[1], a[2])
    [] name = "os_path_dirname" ->
         os_path_dirname_body(a[1])
    [] name = "VerifiedUdimFiles" ->
         VerifiedUdimFiles_body(a[1], a[2], a[3])
    [] name = "Tree" ->
         Tree_body(a[1], a[2], a[3], a[4])
    [] name = "ShadePrims" ->
         ShadePrims_body(a[1], a[2], a[3], a[4], a[5])

(***************************************************************************)
(* The file trees of the analyses                                          *)
(***************************************************************************)
\* The longest text of the analyzed document, in statements.
MaxContent == 2

\* The most analyze calls on one instance.
MaxRuns == 2

Stmt(form, tok) == [form |-> form, tok |-> tok]

\* The texts of at most n statements out of S, none of them twice.
TextsUpTo(S, n) ==
  {t \in UNION {[1..k -> S] : k \in 0..n} :
     \A i, j \in 1..Len(t) : t[i] = t[j] => i = j}

\* The files every tree holds, in listing order.  /a/c.usda and /a/C.usda,
\* /a/t.jpg and /a/T.jpg are names that differ in letter case only.
BaseFiles ==
  <<"/a/r.usda", "/a/c.usda", "/a/C.usda", "/a/t.jpg", "/a/T.jpg",
    "/a/u.1001.jpg", "/a/u.1002.jpg", "/a/shader/s.jpg">>

ShaderMain == "/a/shader/main.usda"

\* A tree: root and child the statements of /a/r.usda and /a/c.usda, shader
\* the statements of /a/shader/main.usda, or "absent" for no such file; the
\* shader directory has a scene file c.usda of its own beside main.usda.
MkTree(root, child, shader, provider) ==
  LET files == IF shader = "absent" THEN BaseFiles
               ELSE BaseFiles \o <<ShaderMain, "/a/shader/c.usda">>
      docs == ("/a/r.usda" :> root) @@ ("/a/c.usda" :> child) @@ ("/a/C.usda" :> <<>>)
  IN Tree(files, {"/w"},
          IF shader = "absent" THEN docs
          ELSE docs @@ (ShaderMain :> shader) @@ ("/a/shader/c.usda" :> <<>>),
          provider)

\* Statements of the analyzed document about scene files ...
RefItems ==
  {Stmt("reference", "c.usda"), Stmt("reference", "C.usda"),
   Stmt("reference", "x.usda"), Stmt("subLayer", "c.usda"),
   Stmt("payload", "c.usda")}

\* ... and about textures.
TexItems ==
  {Stmt("asset", "t.jpg"), Stmt("asset", "T.jpg"), Stmt("asset", "/a/./t.jpg"),
   Stmt("asset", "u.<UDIM>.jpg")}

\* What surrounds the analyzed document: the text of /a/c.usda, the shader
\* document and the provider.
Surrounding(child, shader, provider) ==
  [child |-> child, shader |-> shader, provider |-> provider]

RefSurroundings ==
  {Surrounding(<<>>, "absent", "ok"),
   Surrounding(<<Stmt("reference", "r.usda")>>, "absent", "fail"),
   Surrounding(<<Stmt("reference", "c.usda")>>, <<Stmt("asset", "s.jpg")>>, "ok"),
   Surrounding(<<Stmt("reference", "r.usda")>>, <<Stmt("reference", "../c.usda")>>, "ok"),
   Surrounding(<<Stmt("asset", "/a/t.jpg")>>, <<>>, "ok"),
   Surrounding(<<>>, <<Stmt("reference", "c.usda")>>, "ok")}

TexSurroundings ==
  {Surrounding(<<>>, "absent", "ok"),
   Surrounding(<<Stmt("asset", "/a/t.jpg")>>, "absent", "fail"),
   Surrounding(<<Stmt("asset", "/a/t.jpg")>>, <<Stmt("asset", "s.jpg")>>, "ok"),
   Surrounding(<<Stmt("asset", "/a/t.jpg")>>, <<>>, "ok")}

\* The tree with document p unreadable: open(p) and the provider fail.
WithUnreadable(tree, p) ==
  [tree EXCEPT !.content = [d \in (DOMAIN tree.content) \ {p} |-> tree.content[d]]]

\* Statements for the edges: /a/c.usda in a spelling that is not normalized,
\* a tile set without tiles, a texture.
EdgeItems ==
  {Stmt("reference", "/a/./c.usda"), Stmt("asset", "x.<UDIM>.jpg"), Stmt("asset", "t.jpg")}

\* The trees of the edges: /a/c.usda is empty, or cannot be read.
EdgeTrees ==
  {MkTree(root, <<>>, "absent", "ok") : root \in TextsUpTo(EdgeItems, MaxContent)}
  \cup
  {WithUnreadable(MkTree(root, <<>>, "absent", "ok"), "/a/c.usda") :
     root \in TextsUpTo(EdgeItems, MaxContent)}

\* The trees of the analyses: a document about scene files, or a document
\* that references /a/c.usda and then names textures, or the edges.
Trees ==
  {MkTree(root, e.child, e.shader, e.provider) :
     root \in TextsUpTo(RefItems, MaxContent), e \in RefSurroundings}
  \cup
  {MkTree(<<Stmt("reference", "c.usda")>> \o root, e.child, e.shader, e.provider) :
     root \in TextsUpTo(TexItems, MaxContent), e \in TexSurroundings}
  \cup EdgeTrees

\* The arguments of the analyze calls: the document and original_dir.
AnalyzeArgs ==
  {[file_path |-> "/a/r.usda", original_dir |-> d] : d \in {None, "/a"}}

(***************************************************************************)
(* State                                                                   *)
(*   fs      the file tree; it does not change                             *)
(*   an      the analyzer instance                                         *)
(*   args    the arguments of the last call                                *)
(*   report  what the last call returned                                   *)
(*   calls   the number of analyze calls so far                            *)
(***************************************************************************)
VARIABLES fs, an, args, report, calls

vars == <<fs, an, args, report, calls>>

Init ==
  /\ fs \in Trees
  /\ an = NewAnalyzer
  /\ args = [file_path |-> None, original_dir |-> None]
  /\ report = Report(fs, NewAnalyzer)
  /\ calls = 0

\* analyze_usd_file(a.file_path, a.original_dir) on the instance.
Analyze(a) ==
  /\ calls < MaxRuns
  /\ an' = analyze_usd_file(fs, an, a.file_path, a.original_dir)
  /\ report' = Report(fs, an')
  /\ args' = a
  /\ calls' = calls + 1
  /\ UNCHANGED fs

\* reset() on the instance, between two analyses.
Reset ==
  /\ 0 < calls /\ calls < MaxRuns
  /\ an' = reset(an)
  /\ UNCHANGED <<fs, args, report, calls>>

Next ==
  \/ \E a \in AnalyzeArgs : Analyze(a)
  \/ Reset

Spec == Init /\ [][Next]_vars

(***************************************************************************)
(* Tile counting on its own: count_udim_textures_in_path applied to a      *)
(* directory of tiles                                                      *)
(***************************************************************************)
\* The most tiles a tile directory holds.
MaxTiles == 4

\* The files of directory /d that are no tiles; the last has a digit run
\* that is no tile index.
TileExtras == <<"/d/tex_other.jpg", "/d/tex.jpg", "/d/tex.7.jpg">>

\* The directories /d of k tiles with one prefix, with some of the extras.
\* Tile i of the set with the prefix "tex." is named tex.1001.jpg, ...
TileTrees ==
  LET TileName(prefix, i) == prefix \o "100" \o Char(Digits, i + 1) \o ".jpg"
  IN {Tree([i \in 1..k |-> "/d/" \o TileName(prefix, i)]
             \o FilterSeq(TileExtras, LAMBDA f : f \in extras),
           {"/w"}, <<>>, "ok") :
        k \in 0..MaxTiles, prefix \in {"tex.", "tex", ""}, extras \in SUBSET Range(TileExtras)}

\* The paths count_udim_textures_in_path is asked about.
TileQueries ==
  {"/d/tex.<UDIM>.jpg", "/d/tex<UDIM>.jpg", "/d/<UDIM>.jpg", "/d/tex.<udim>.jpg",
   "/d/tex.jpg", "/d/tex_other.jpg", "/d/tex.1001.jpg", "/d/none.jpg",
   "/e/tex.<UDIM>.jpg", "/e/tex.jpg"}

NoCall == [call |-> None]

InitTiles ==
  /\ fs \in TileTrees
  /\ an = NewAnalyzer
  /\ args = NoCall
  /\ report = None
  /\ calls = 0

\* count_udim_textures_in_path(udim_path) on the tree.
CountTiles(udim_path) ==
  /\ args' = [call |-> "count_udim_textures_in_path", udim_path |-> udim_path]
  /\ report' = count_udim_textures_in_path(fs, udim_path)
  /\ UNCHANGED <<fs, an, calls>>

NextTiles == \E udim_path \in TileQueries : CountTiles(udim_path)

SpecTiles == InitTiles /\ [][NextTiles]_vars

(***************************************************************************)
(* Resolution on its own: resolve_path applied to a token and a base       *)
(* directory                                                               *)
(***************************************************************************)
\* A project with staging directories next to the directory of its scene,
\* and a staging directory next to the working directory /w.
StagingFiles ==
  <<"/p/usd/r.usda", "/p/usd/t.jpg", "/p/usd/v.1001.jpg", "/p/txt/k.jpg", "/p/txt/u.1001.jpg",
    "/p/publish/v1/m.jpg", "/w/t.jpg", "/txt/k.jpg">>

ResolveTrees ==
  {MkTree(<<>>, <<>>, "absent", "ok"),
   Tree(StagingFiles, {"/w"}, <<>>, "ok"),
   Tree(<<>>, {"/w"}, <<>>, "ok")}

\* The tokens resolve_path is given.
ResolveTokens ==
  {"", " ", "t.jpg", " 't.jpg' ", "./t.jpg", "../a/t.jpg", "x.usda", "sub/x.usda",
   "../x.usda", "k.jpg", "m.jpg", "u.<UDIM>.jpg", "u.####.jpg", "v.####.jpg",
   "x.<udim>.jpg", "/a/t.jpg", "/x/y.jpg"}

InitResolve ==
  /\ fs \in ResolveTrees
  /\ an = NewAnalyzer
  /\ args = NoCall
  /\ report = None
  /\ calls = 0

\* resolve_path(file_path, base_dir) on the tree.
Resolve(file_path, base_dir) ==
  /\ args' = [call |-> "resolve_path", file_path |-> file_path, base_dir |-> base_dir]
  /\ report' = resolve_path(fs, file_path, base_dir)
  /\ UNCHANGED <<fs, an, calls>>

\* The base directories resolve_path is given: none, or these.
NextResolve ==
  \E file_path \in ResolveTokens, base_dir \in {None, "", "/a", "/p/usd", "/nodir"} :
    Resolve(file_path, base_dir)

SpecResolve == InitResolve /\ [][NextResolve]_vars

(***************************************************************************)
(* Packaging on its own: package_files applied to a request                *)
(***************************************************************************)
\* The most entries, references and textures together, of a request.
MaxEntries == 2

\* A scene under /a, one on the file server, and files elsewhere.
PackFiles ==
  <<"/a/r.usda", "/a/sub/c.usda", "/ab/usd/c.usda", "/x/assets/usd/d.usda", "/m/filmserver",
    "/srv/filmserver/show/r.usda", "/srv/filmserver/show/tex/t.jpg",
    "/srv/filmserver/show/tex/u.1001.jpg", "/srv/filmserver/show/tex/u.1002.jpg",
    "/random/deep/tex/diffuse.jpg", "/random/deep/tex/d.1001.jpg", "/x/y/z.jpg",
    "/srv/k.usda", "/q/y/z.jpg">>

\* The trees of these files, one file of which, or none, cannot be read.
PackTrees ==
  {Tree(PackFiles, {"/w"}, <<>>, "ok") @@ [locked |-> locked] :
     locked \in {{}, {"/a/r.usda"}, {"/a/sub/c.usda"}, {"/random/deep/tex/diffuse.jpg"},
                 {"/random/deep/tex/d.1001.jpg"}}}

\* The requests: a main file, the output directory, up to MaxEntries
\* references and up to MaxEntries textures, existing or not; one reference
\* names /srv/k.usda by way of the directory filmserver and its parent.
PackRequests ==
  LET PackMains == {"/a/r.usda", "/srv/filmserver/show/r.usda", "/a/none.usda"}
      PackReferences ==
        {[path |-> p, type |-> "reference"] :
           p \in {"/a/sub/c.usda", "/ab/usd/c.usda", "/x/assets/usd/d.usda", "/m/filmserver",
                  "/srv/filmserver/show/r.usda", "/a/none.usda", "",
                  "/srv/filmserver/../k.usda"}}
      PackTextures ==
        {[path |-> p, source |-> "usda"] :
           p \in {"/srv/filmserver/show/tex/t.jpg", "/srv/filmserver/show/tex/u.<UDIM>.jpg",
                  "/random/deep/tex/diffuse.jpg", "/random/deep/tex/d.<UDIM>.jpg",
                  "/x/y/z.jpg", "/q/y/z.jpg", "/random/deep/tex",
                  "/random/deep/tex/none.jpg",
                  "/nodir/e.<UDIM>.jpg"}}
  IN {[file_path |-> m, output_path |-> "/out", references |-> refs, textures |-> texs] :
        m \in PackMains,
        refs \in UNION {[1..n -> PackReferences] : n \in 0..MaxEntries},
        texs \in UNION {[1..n -> PackTextures] : n \in 0..MaxEntries}}

InitPackage ==
  /\ fs \in PackTrees
  /\ an = NewAnalyzer
  /\ args = NoCall
  /\ report = None
  /\ calls = 0

\* package_files(request) on the tree; the files it writes, under the
\* output directory, are report.done.copies.  The function keeps nothing
\* from one call to the next and reads nothing under the output directory:
\* one call in every behaviour shows all it does.
Package(request) ==
  /\ args = NoCall
  /\ Len(request.references) + Len(request.textures) <= MaxEntries
  /\ args' = [call |-> "package_files", request |-> request]
  /\ report' = package_files(fs, request)
  /\ UNCHANGED <<fs, an, calls>>

NextPackage == \E request \in PackRequests : Package(request)

SpecPackage == InitPackage /\ [][NextPackage]_vars

(***************************************************************************)
(* Shading on its own: the provider step over the shading prims of a stage *)
(***************************************************************************)
\* The stages: a material M whose surface output is connected to the shader
\* S; S with the inputs diffuseColor and ior, each connected to the shader T
\* or to nothing (ior also to S itself); T, a UsdUVTexture or another node,
\* with a file input and an input `in` connected to S or to nothing.
ShadeNetworks ==
  LET Input(name, source, kind, path) ==
        [name |-> name, source |-> source, value |-> [kind |-> kind, path |-> path]]
      Prim(type, id, inputs, outputs) ==
        [type |-> type, id |-> id, inputs |-> inputs, outputs |-> outputs]
  IN {("M" :> Prim("Material", "",
                   IF m = None THEN <<>> ELSE <<Input("diffuseColor", m, "none", "")>>,
                   <<Input("surface", "S", "none", "")>>))
      @@ ("S" :> Prim("Shader", "UsdPreviewSurface",
                      <<Input("diffuseColor", s1, "none", ""), Input("ior", s2, "none", "")>>,
                      <<>>))
      @@ ("T" :> Prim("Shader", id,
                      <<Input("file", None, kind, IF kind = "none" THEN "" ELSE "t.jpg"),
                        Input("in", back, "none", "")>>,
                      <<>>)) :
        m \in {None, "T"}, s1 \in {None, "T"}, s2 \in {None, "T", "S"},
        id \in {"UsdUVTexture", "ND_image_color3"}, kind \in {"str", "asset", "none"},
        back \in {None, "S"}}

InitShade ==
  /\ fs = Tree(<<"/a/r.usda", "/a/t.jpg">>, {"/w"}, <<>>, "ok")
  /\ an = NewAnalyzer
  /\ args = NoCall
  /\ report = None
  /\ calls = 0

\* The provider step of /a/r.usda over the prims M, S, T of the stage.
Shade(net) ==
  LET st == ShadePrims(fs, net, [an |-> NewAnalyzer,
                                 walk |-> [walked |-> <<>>, overflow |-> FALSE]],
                       <<"M", "S", "T">>, "/a")
  IN /\ args' = [call |-> "shade", net |-> net]
     /\ an' = st.an
     /\ report' = st.walk
     /\ UNCHANGED <<fs, calls>>

NextShade == \E net \in ShadeNetworks : Shade(net)

SpecShade == InitShade /\ [][NextShade]_vars

(***************************************************************************)
(* What the claims about an analysis speak of                              *)
(***************************************************************************)
\* Some analysis has returned: report is its result, args its arguments.
Analyzed == calls > 0

\* The composition arcs of a document's text.
SceneArcs == {"reference", "subLayer", "payload"}

\* The existing scene files that the text of document F references, the
\* tokens anchored to the directory of F.
Referenced(tree, F) ==
  LET text == tree.content[F]
      Target(st) == normalize_path(os_path_join(os_path_dirname(F), st.tok))
  IN {p \in {Target(text[i]) : i \in {j \in 1..Len(text) : text[j].form \in SceneArcs}} :
        os_path_isfile(tree, p)}

\* rep lists file p among its references, letter case ignored.
ListedTimes(rep, p) ==
  Cardinality({i \in 1..Len(rep.references) : Lower(rep.references[i].path) = Lower(p)})

\* The documents among the paths S.
Documents(tree, S) == S \cap DOMAIN tree.content

RECURSIVE ReachableFrom(_, _)
\* The documents reached from the documents S along the references of
\* their texts.
ReachableFrom(tree, S) ==
  LET more == S \cup Documents(tree, UNION {Referenced(tree, F) : F \in S})
  IN IF more = S THEN S ELSE ReachableFrom(tree, more)

\* The canonical path of a raw reference or texture path of the last
\* analysis.
Canonical(path) == normalize_path(resolve_path(fs, path, args.original_dir))

\* The raw path resolves to something that exists.
Survives(path) ==
  LET resolved == resolve_path(fs, path, args.original_dir)
  IN Truthy(resolved) /\ os_path_exists(fs, resolved)

\* C1: the references of the report of an analysis with a base directory
\* are transitively closed: every existing scene file that the text of the
\* analyzed document, or of a listed document, references is listed too.
C1_TransitivelyClosed ==
  Analyzed /\ Truthy(args.original_dir) =>
    \A F \in Documents(fs, {args.file_path}
                           \cup {report.references[i].path : i \in 1..Len(report.references)}) :
      \A p \in Referenced(fs, F) : ListedTimes(report, p) >= 1

\* C2: an analysis with a base directory ends, and a file on a reference
\* cycle of one or two documents that the analyzed document reaches is
\* listed exactly once.
C2_CycleListedOnce ==
  Analyzed /\ Truthy(args.original_dir) =>
    /\ ~an.exhausted
    /\ \A F \in ReachableFrom(fs, Documents(fs, {args.file_path})) :
         \A G \in Documents(fs, Referenced(fs, F)) :
           F \in Referenced(fs, G) => ListedTimes(report, G) = 1

\* C3: every reference of the report is a file that exists; a raw reference
\* that resolves to nothing existing is not in the report.
C3_ReferencesExist ==
  /\ \A i \in 1..Len(report.references) : os_path_exists(fs, report.references[i].path)
  /\ Analyzed =>
       \A k \in 1..Len(an.raw_references) :
         ~Survives(an.raw_references[k].path) =>
           \A i \in 1..Len(report.references) :
             report.references[i].path # Canonical(an.raw_references[k].path)

\* C3 witness: an analysis met a reference to a file that does not exist
\* and reported other references.
C3_Witness ==
  /\ Analyzed
  /\ \E k \in 1..Len(an.raw_references) : ~Survives(an.raw_references[k].path)
  /\ Len(report.references) > 0

\* C4: no two references of the report are equal with letter case ignored;
\* of the raw references with existing files and case-insensitively equal
\* canonical paths, the report holds the first one discovered, with its
\* spelling and its kind.
C4_FirstReferenceKept ==
  Analyzed =>
    LET raw == an.raw_references
        fin == report.references
        Same(k, l) == Lower(Canonical(raw[k].path)) = Lower(Canonical(raw[l].path))
        First(k) == CHOOSE l \in 1..k :
                      /\ Survives(raw[l].path) /\ Same(k, l)
                      /\ \A m \in 1..(l - 1) : ~(Survives(raw[m].path) /\ Same(k, m))
    IN /\ \A i, j \in 1..Len(fin) : Lower(fin[i].path) = Lower(fin[j].path) => i = j
       /\ \A k \in 1..Len(raw) :
            Survives(raw[k].path) =>
              \E i \in 1..Len(fin) :
                /\ fin[i].path = Canonical(raw[First(k)].path)
                /\ fin[i].type = raw[First(k)].type

\* C4 witness: an analysis discovered two existing references whose
\* canonical paths differ in letter case only, and reported one of them.
C4_Witness ==
  /\ Analyzed
  /\ \E k, l \in 1..Len(an.raw_references) :
       /\ k < l
       /\ Survives(an.raw_references[k].path) /\ Survives(an.raw_references[l].path)
       /\ Canonical(an.raw_references[k].path) # Canonical(an.raw_references[l].path)
       /\ Lower(Canonical(an.raw_references[k].path)) = Lower(Canonical(an.raw_references[l].path))
       /\ \E i \in 1..Len(report.references) :
            report.references[i].path = Canonical(an.raw_references[k].path)

\* C5: no two textures of the report are equal with letter case ignored.
C5_TexturesDistinct ==
  \A i, j \in 1..Len(report.textures) :
    Lower(report.textures[i].path) = Lower(report.textures[j].path) => i = j

\* C6: a texture of the report carries the source of the first raw texture
\* path discovered that has its canonical path.
C6_FirstSourceKept ==
  Analyzed =>
    LET raw == an.raw_textures
    IN \A i \in 1..Len(report.textures) :
         \A k \in 1..Len(raw) :
           /\ Canonical(raw[k].k) = report.textures[i].path
           /\ \A m \in 1..(k - 1) : Canonical(raw[m].k) # report.textures[i].path
           => report.textures[i].source = raw[k].v

\* C7: whatever the instance analyzed before, with or without reset, the
\* report of an analysis is the one a new instance returns for the same
\* arguments on the same tree.
C7_ReportOfNewInstance ==
  calls > 1 =>
    report = Report(fs, analyze_usd_file(fs, NewAnalyzer, args.file_path, args.original_dir))

\* C7 witness: a second analysis on the instance reported references and
\* textures.
C7_Witness ==
  /\ calls > 1
  /\ an.processed_assets # {}
  /\ Len(report.references) > 0
  /\ Len(report.textures) > 0

(***************************************************************************)
(* What the claims about tile counting and resolution speak of             *)
(***************************************************************************)
\* count_udim_textures_in_path has returned report for args.udim_path.
Counted == args.call = "count_udim_textures_in_path"

\* The name is prefix, a run of digits, suffix; of four digits when four.
IsIndexed(name, prefix, suffix, four) ==
  /\ Len(name) > Len(prefix) + Len(suffix)
  /\ SubSeq(name, 1, Len(prefix)) = prefix
  /\ SubSeq(name, Len(name) - Len(suffix) + 1, Len(name)) = suffix
  /\ \A i \in (Len(prefix) + 1)..(Len(name) - Len(suffix)) : Char(name, i) \in DigitSet
  /\ four => Len(name) = Len(prefix) + 4 + Len(suffix)

\* The number of files in the directory of the path that IsIndexed accepts.
IndexedFiles(tree, path, prefix, suffix, four) ==
  Cardinality({f \in tree.names :
                 /\ os_path_dirname(f) = os_path_dirname(path)
                 /\ IsIndexed(os_path_basename(f), prefix, suffix, four)})

\* C8: for a path whose basename is prefix <UDIM> suffix, the prefix
\* possibly empty, the count covers every file of the directory named
\* prefix, four digits, suffix, and nothing but files with a digit run
\* between prefix and suffix; for tex.1001.jpg to tex.1004.jpg beside
\* tex_other.jpg the count of tex.<UDIM>.jpg is 4.
C8_CountsTheTiles ==
  Counted /\ Contains(os_path_basename(args.udim_path), "<UDIM>") =>
    LET parts == SplitAll(os_path_basename(args.udim_path), "<UDIM>")
    IN /\ IndexedFiles(fs, args.udim_path, parts[1], parts[2], TRUE) <= report
       /\ report <= IndexedFiles(fs, args.udim_path, parts[1], parts[2], FALSE)

\* C9 as stated: for a path whose basename holds no tile placeholder the
\* count is 1 if the file exists and 0 otherwise.
C9_OneIfExists ==
  Counted /\ ~AnyContains(os_path_basename(args.udim_path), udim_patterns) =>
    report = IF os_path_exists(fs, args.udim_path) THEN 1 ELSE 0

\* C9: for a path whose basename holds no tile placeholder the count is 0,
\* whether the file exists or not.
C9_ZeroWithoutPlaceholder ==
  Counted /\ ~AnyContains(os_path_basename(args.udim_path), udim_patterns) =>
    report = 0

\* C9 witness: the count of an existing file without placeholder is 0.
C9_Witness ==
  /\ Counted
  /\ ~AnyContains(os_path_basename(args.udim_path), udim_patterns)
  /\ os_path_isfile(fs, args.udim_path)
  /\ report = 0

\* resolve_path has returned report for args.file_path and args.base_dir.
Resolved == args.call = "resolve_path"

\* No file of the tree has the name of the token's last component, so no
\* search finds anything for it.
NothingToFind(tree, token) ==
  \A f \in tree.names : os_path_basename(f) # os_path_basename(token)

\* C10: resolve_path returns None exactly for the empty token; for a
\* relative token without placeholder for which there is nothing to find
\* it returns the normalized join of the base directory, the working
\* directory when none is given, and the cleaned token.
C10_ResolveReturnsPath ==
  Resolved =>
    LET token == Strip(Strip(args.file_path, Whitespace), "\"'")
        base == IF Truthy(args.base_dir) THEN args.base_dir ELSE os_getcwd
    IN /\ report = None <=> args.file_path = ""
       /\ ( /\ args.file_path # ""
            /\ ~os_path_isabs(args.file_path)
            /\ ~AnyContains(token, ResolveUdimPatterns)
            /\ NothingToFind(fs, token) )
          => report = os_path_normpath(os_path_join(base, token))

\* C10 witness: a relative token for a file that is nowhere, resolved
\* against a base directory that does not exist, gives the joined path.
C10_Witness ==
  /\ Resolved
  /\ args.file_path = "../x.usda"
  /\ args.base_dir = "/nodir"
  /\ ~os_path_isdir(fs, args.base_dir)
  /\ report = "/x.usda"

\* The scene files of the tree that cannot be read.
Unreadable(tree) ==
  {f \in tree.names : EndsWith(f, ".usda") /\ f \notin DOMAIN tree.content}

\* The tree with its unreadable scene files readable and empty.
AsEmpty(tree) ==
  [tree EXCEPT !.content =
     [d \in (DOMAIN tree.content) \cup Unreadable(tree) |->
        IF d \in DOMAIN tree.content THEN tree.content[d] ELSE <<>>]]

C11_PlaceholderRestored ==
  Resolved /\ args.file_path # "" /\ ~os_path_isabs(args.file_path) =>
    LET token == Strip(Strip(args.file_path, Whitespace), "\"'")
        udim_pattern == FirstPattern(ResolveUdimPatterns, token)
    IN udim_pattern # None =>
         /\ Contains(os_path_basename(report), udim_pattern)
         /\ ~Contains(os_path_basename(report), ".1001.")

(***************************************************************************)
(* What the claims about packaging speak of                                *)
(***************************************************************************)
\* package_files has been called.
PackageCalled == args.call = "package_files"

\* The files the call wrote, [kind, source, target].
Copies == report.done.copies

\* Where the segment 'filmserver' starts in an absolute path, 0 without it.
MarkerAt(path) == Find(path \o "/", "/filmserver/")

\* What follows the segment 'filmserver' in the path.
AfterMarker(path) == SubSeq(path, MarkerAt(path) + Len("/filmserver/"), Len(path))

\* The path lies in the directory or below it.
LiesUnder(path, directory) ==
  StartsWith(path, IF EndsWith(directory, "/") THEN directory ELSE directory \o "/")

FromFolder(path, folder) == SubSeq(path, Find(path \o "/", "/" \o folder \o "/") + 1, Len(path))

\* C14: a file package_files copies that has no segment 'filmserver' and
\* does not lie under the main file's directory goes to the output
\* directory joined with its path from the convention folder onward, the
\* first name of the list of its kind that is among the path's segments,
\* and with parent directory and base name when the path has none.
C14_ConventionFolder ==
  PackageCalled =>
    \A i \in 1..Len(Copies) :
      LET source == Copies[i].source
          key_folder == FirstKeyFolder(IF Copies[i].kind = "references" THEN ref_key_folders
                                       ELSE tex_key_folders,
                                       PathParts(source))
      IN /\ Copies[i].kind # "main"
         /\ MarkerAt(source) = 0
         /\ ~LiesUnder(source, os_path_dirname(args.request.file_path))
         => Copies[i].target =
              args.request.output_path \o "/" \o
                (IF key_folder # None THEN FromFolder(source, key_folder)
                 ELSE os_path_basename(os_path_dirname(source)) \o "/" \o os_path_basename(source))

\* C15: when the main file exists and can be copied, package_files gives
\* every reference and every texture of the request its turn and answers
\* with success, whichever of them is missing or cannot be copied.
C15_BatchContinues ==
  /\ PackageCalled
  /\ os_path_exists(fs, args.request.file_path)
  /\ ~CopyFails(fs, args.request.file_path, report.done.main)
  => /\ report.response.success
     /\ Len(report.done.reached) = Len(args.request.references) + Len(args.request.textures)

\* The entries of a response that tell of the skipped files.
Skipped(response) == IF "skipped" \in DOMAIN response THEN response.skipped ELSE <<>>

\* The response tells of the entry: as the source of a copied file, as the
\* pattern of a copied tile, or among the skipped ones.
Reported(response, entry, copied) ==
  \/ \E i \in 1..Len(copied) : copied[i].source = entry.path
  \/ \E i \in 1..Len(copied) :
       /\ copied[i].type = "UDIM"
       /\ PackagePattern(entry.path).placeholder # None
       /\ fnmatch(copied[i].source,
                  Replace(entry.path, PackagePattern(entry.path).placeholder,
                          PackagePattern(entry.path).glob))
  \/ \E i \in 1..Len(Skipped(response)) : Skipped(response)[i].path = entry.path

\* C16: a response of package_files that tells of success tells of every
\* reference and every texture of the request, as copied or as skipped.
C16_EveryEntryReported ==
  PackageCalled /\ report.response.success =>
    /\ \A i \in 1..Len(args.request.references) :
         Reported(report.response, args.request.references[i],
                  report.response.copied_files.references)
    /\ \A i \in 1..Len(args.request.textures) :
         Reported(report.response, args.request.textures[i],
                  report.response.copied_files.textures)

\* C17: the keys of the tile-count map of the report of an analysis are the
\* paths of the textures of the report, no more and no fewer.
C17_CountsKeyedByTextures ==
  Analyzed =>
    DictKeys(report.texture_udim_counts) = {report.textures[i].path : i \in 1..Len(report.textures)}

\* C18: every analysis leaves the instance with no path entered twice and
\* with a visited set that holds exactly the paths entered: a path found
\* again, in whatever statement, was not entered again and none was taken
\* out.
C18_EnteredOnce ==
  [][calls' # calls =>
       /\ \A i, j \in 1..Len(an'.entered) : an'.entered[i] = an'.entered[j] => i = j
       /\ an'.processed_assets = Range(an'.entered)]_vars

\* C18: a document entered later references one entered before it, the
\* document analyzed included, and the analysis has ended.
C18_Witness ==
  /\ Analyzed
  /\ ~an.exhausted
  /\ \E i, j \in 1..Len(an.entered) :
       /\ i < j
       /\ an.entered[j] \in DOMAIN fs.content
       /\ an.entered[i] \in Referenced(fs, an.entered[j])
  /\ \E j \in 2..Len(an.entered) :
       /\ an.entered[j] \in DOMAIN fs.content
       /\ an.entered[1] \in Referenced(fs, an.entered[j])

\* C19: no two of the paths an analysis entered are spellings of one
\* normalized path: a document is traversed once, however its path is
\* spelled in the statements that lead to it.
C19_VisitedNormalized ==
  Analyzed =>
    \A i, j \in 1..Len(an.entered) :
      normalize_path(an.entered[i]) = normalize_path(an.entered[j]) => i = j

\* The number of files in the directory of the path named prefix, an index
\* of 1000..1999, suffix.
TileFiles(tree, path, prefix, suffix) ==
  Cardinality({f \in tree.names :
                 /\ os_path_dirname(f) = os_path_dirname(path)
                 /\ IsIndexed(os_path_basename(f), prefix, suffix, TRUE)
                 /\ Char(os_path_basename(f), Len(prefix) + 1) = "1"})

\* C20: for a path whose basename is prefix <UDIM> suffix, neither empty,
\* the count is the number of files with a tile index between prefix and
\* suffix when there is one, and the number of files with any digit run
\* between them when there is no such file but one of these: the files of
\* a later tier count only when the earlier tier found nothing.
C20_TiersInOrder ==
  Counted /\ Contains(os_path_basename(args.udim_path), "<UDIM>") =>
    LET parts == SplitAll(os_path_basename(args.udim_path), "<UDIM>")
        strict == TileFiles(fs, args.udim_path, parts[1], parts[2])
        loose == IndexedFiles(fs, args.udim_path, parts[1], parts[2], FALSE)
    IN parts[1] # "" /\ parts[2] # "" /\ os_path_isdir(fs, os_path_dirname(args.udim_path)) =>
         /\ strict > 0 => report = strict
         /\ strict = 0 /\ loose > 0 => report = loose
(***************************************************************************)
(* Resolution without a base directory                                     *)
(***************************************************************************)
\* C21: without a base directory resolve_path answers what it answers for
\* the working directory given as the base directory: the joined path when
\* it exists, else the first file of that name in the staging directories
\* next to the working directory, else the joined path.
C21_SameRulesWithoutBase ==
  Resolved /\ args.base_dir = None =>
    report = resolve_path(fs, args.file_path, os_getcwd)
(***************************************************************************)
(* What the claims about the shader override speak of                      *)
(***************************************************************************)
\* C22: the clearing step of a document with a shader override happens as
\* the document is entered, before anything of its branch is collected, so
\* every texture it finds recorded comes from a document outside the branch
\* (a sibling branch walked before, an ancestor): the clearing steps of an
\* analysis remove none of them.
C22_ClearingKeepsOtherBranches ==
  Analyzed => an.cleared = <<>>
\* The tree with the text of document P empty: P states nothing, and the
\* provider reports nothing for it.
Bare(tree, P) == [tree EXCEPT !.content[P] = <<>>]

\* The analyzed document has a shader override and can be read.
OverrideAnalyzed ==
  /\ Analyzed
  /\ HasShaderOverride(fs, args.file_path)
  /\ args.file_path \in DOMAIN fs.content

\* What the analysis of the document records when the document itself
\* states nothing: what its shader override yields.
OverrideAlone ==
  analyze_usd_file(Bare(fs, args.file_path), NewAnalyzer, args.file_path, args.original_dir)

\* The last analysis recorded the scene file the token names, in some
\* spelling ...
RecordedReference(tok, dir) ==
  LET target == resolve_path(fs, tok, dir)
  IN \E i \in 1..Len(an.raw_references) :
       LET full == resolve_path(fs, an.raw_references[i].path, dir)
       IN Truthy(full) /\ os_path_normpath(full) = os_path_normpath(target)

\* ... and the texture, at some moment of the traversal.
RecordedTexture(path) ==
  \/ DictHas(an.raw_textures, path)
  \/ \E i \in 1..Len(an.cleared) : an.cleared[i].path = path

\* C23: when the shader override of the analyzed document yields a texture,
\* the analysis records what it records for the document stating nothing:
\* no reference and no texture of the document's own text or of the
\* provider.  When it yields none, the document is processed: the scene
\* files its text names, what the provider reports for it and the textures
\* of its text are recorded.
C23_OverrideOrOwnContent ==
  OverrideAnalyzed =>
    LET P == args.file_path
        dir == IF Truthy(args.original_dir) THEN args.original_dir ELSE os_path_dirname(P)
        text == fs.content[P]
        reported == Provider(fs, P)
    IN IF OverrideAlone.raw_textures # <<>>
       THEN /\ an.raw_references = OverrideAlone.raw_references
            /\ an.raw_textures = OverrideAlone.raw_textures
       ELSE /\ \A i \in 1..Len(text) :
                 /\ text[i].form \in SceneArcs => RecordedReference(text[i].tok, dir)
                 /\ text[i].form = "asset" =>
                      RecordedTexture(resolve_path(fs, text[i].tok, dir))
            /\ ProviderAnswers(fs, P) =>
                 \A i \in 1..Len(reported) :
                   \E j \in 1..Len(an.raw_references) :
                     /\ an.raw_references[j].path = reported[i].path
                     /\ an.raw_references[j].type = reported[i].kind

\* C23 witness, the override yields: the document names a scene file, its
\* override a texture, and the analysis has returned.
C23_Witness ==
  /\ OverrideAnalyzed
  /\ OverrideAlone.raw_textures # <<>>
  /\ \E i \in 1..Len(fs.content[args.file_path]) :
       fs.content[args.file_path][i].form \in SceneArcs
  /\ Len(report.textures) > 0
(***************************************************************************)
(* What the claims about shading speak of                                  *)
(***************************************************************************)
\* The provider step over the shading prims of args.net has returned.
Shaded == args.call = "shade"

\* The input name holds one of the texture keywords.
TextureRelated(name) ==
  AnyContains(Lower(name),
    <<"texture", "file", "map", "image", "tex", "diffuse", "albedo", "normal",
      "roughness", "metallic", "specular", "emission", "occlusion", "height",
      "bump", "color", "opacity", "displacement">>)

\* C24: after the provider step, every shader with a connected input whose
\* name holds a texture keyword has a texture entry whose source names it.
C24_ConnectedInputGivesTexture ==
  Shaded =>
    \A s \in DOMAIN args.net :
      ( /\ args.net[s].type = "Shader"
        /\ \E i \in 1..Len(args.net[s].inputs) :
             /\ args.net[s].inputs[i].source # None
             /\ TextureRelated(args.net[s].inputs[i].name) )
      => \E j \in 1..Len(an.texture_files) :
           \/ an.texture_files[j].v = s
           \/ EndsWith(an.texture_files[j].v, ":" \o s)

\* C30: the walk of the shading prims of a stage ends for every finite
\* network, with or without a cycle among the input connections: it never
\* goes on until the call stack is used up.
C30_WalkEndsWithinStack ==
  Shaded => ~report.overflow

\* C25: a reference or texture package_files copies that has no segment
\* 'filmserver' goes to the output directory joined with its path relative
\* to the main file's directory exactly when it lies under that directory
\* segment by segment; one that lies outside goes where the convention
\* folder or parent directory and base name put it.
C25_UnderMainBySegments ==
  PackageCalled =>
    \A i \in 1..Len(Copies) :
      LET source == Copies[i].source
          source_dir == os_path_dirname(args.request.file_path)
          under == args.request.output_path \o "/" \o
                     SubSeq(source, Len(source_dir) + 2, Len(source))
          key_folder == FirstKeyFolder(IF Copies[i].kind = "references" THEN ref_key_folders
                                       ELSE tex_key_folders,
                                       PathParts(source))
          outside == args.request.output_path \o "/" \o
                       (IF key_folder # None THEN FromFolder(source, key_folder)
                        ELSE os_path_basename(os_path_dirname(source)) \o "/"
                               \o os_path_basename(source))
      IN Copies[i].kind # "main" /\ MarkerAt(source) = 0
         => Copies[i].target = IF LiesUnder(source, source_dir) THEN under ELSE outside

\* C26: every file package_files writes goes to a path below the output
\* directory of the request, whatever the segments of the requested paths:
\* never to a path outside it, never onto the source file.
C26_DestinationInsideRoot ==
  PackageCalled =>
    \A i \in 1..Len(Copies) :
      /\ LiesUnder(os_path_normpath(Copies[i].target),
                   os_path_normpath(args.request.output_path))
      /\ os_path_normpath(Copies[i].target) # os_path_normpath(Copies[i].source)

\* C27: in one call of package_files no two different source files are
\* written to the same destination: each copied file still is at its
\* destination when the call returns.
C27_OneSourcePerDestination ==
  PackageCalled =>
    \A i, j \in 1..Len(Copies) :
      os_path_normpath(Copies[i].target) = os_path_normpath(Copies[j].target)
        => os_path_normpath(Copies[i].source) = os_path_normpath(Copies[j].source)

\* C28: every reference of the report of an analysis, the shader override
\* documents aside, is a file the traversal resolved and entered: the token
\* is resolved for the report
\* against the directory it was resolved against when it was found, the
\* shader directory for a token of a shader override.
C28_ReportedIsVisited ==
  Analyzed =>
    \A i \in 1..Len(report.references) :
      report.references[i].type # "shader" =>
        \E k \in 1..Len(an.entered) :
          normalize_path(an.entered[k]) = report.references[i].path

\* The forms by which the text of document F incorporates scene file p.
FormsOf(tree, F, p) ==
  LET text == tree.content[F]
  IN {text[i].form : i \in {j \in 1..Len(text) :
                              /\ text[j].form \in SceneArcs
                              /\ normalize_path(os_path_join(os_path_dirname(F), text[j].tok)) = p}}

\* C29: a scene file that the text of the analyzed document incorporates
\* only as a sub-layer, or only as a payload, and that the report lists, is
\* listed with the type subLayer, or payload, not with the type reference.
C29_KindOfDiscovery ==
  Analyzed /\ args.file_path \in DOMAIN fs.content =>
    \A i \in 1..Len(report.references) :
      \A form \in {"subLayer", "payload"} :
        FormsOf(fs, args.file_path, report.references[i].path) = {form}
          => report.references[i].type = form

====
